---- MODULE Spec2Model ----
(***************************************************************************)
(* State machine of homebridge-samsung-window-ac.                          *)
(*                                                                         *)
(*  - SamsungWindowACAccessory (src/unnamed/part_001, the version with the *)
(*    unified status cache, lines 469-1328): the characteristic get/set    *)
(*    handlers, acStates, characteristicCaches and statusCache.            *)
(*  - SamsungWindowACPlatform  (src/src/platform.ts): the three remote     *)
(*    commands.                                                            *)
(*  - TokenManager             (src/src/tokenManager.ts).                  *)
(*                                                                         *)
(* A handler is an async function: it runs without interruption up to an   *)
(* await of a remote call and is resumed when the remote call settles.     *)
(* Every such segment is one action; handlers in flight are kept in        *)
(* `calls`.                                                                *)
(***************************************************************************)
EXTENDS Integers, Sequences, FiniteSets, TLC

\* ------------------------------------------------------------------ bounds
\* Handler invocations per behaviour when handlers run one at a time (Spec).
MaxOps == 3
\* Handlers in flight at once, and handler invocations per behaviour, when
\* handlers overlap at their awaits (SpecOverlap).
MaxInflight == 2
MaxOverlapOps == 2
\* Clock advances per behaviour.
MaxTicks == 1

\* ------------------------------------------------------- program constants
CACHE_DURATION == 5 * 60 * 1000
CHARACTERISTIC_CACHE_DURATION == 30 * 1000
MIN_TEMP == 18
MAX_TEMP == 30
AUTO_OFFSET == 4

\* The clock moves by one fine-tier TTL or by one coarse-tier TTL.
TimeSteps == {CHARACTERISTIC_CACHE_DURATION, CACHE_DURATION}

\* Values the host may hand to a temperature set handler (the threshold
\* handlers test for values outside 18..30 themselves).
TempInputs == {21, 31}
\* Setpoints the remote may report.
RemoteSetpoints == {16, 28}
\* airConditionerMode values the remote may report; "wind" stands for any
\* string outside AC_MODE_MAPPING.
RemoteModes == {"off", "cool", "dry", "aIComfort", "fan", "wind"}
RemoteTemperatures == {27}
RemoteHumidities == {60}

Keys ==
  {"Active", "CurrentHeatingCoolingState", "TargetHeatingCoolingState",
   "CurrentTemperature", "TargetTemperature", "CoolingThresholdTemperature",
   "HeatingThresholdTemperature", "CurrentHumidity"}

Min(a, b) == IF a < b THEN a ELSE b
Max(a, b) == IF a > b THEN a ELSE b

\* ------------------------------------------------------------ mode tables
\* The table with dry decoded as off.
AC_MODE_MAPPING_DryAsOff ==
  [off |-> 0, cool |-> 2, dry |-> 0, aIComfort |-> 3, fan |-> 0]

\* The table with fan decoded as cool.
AC_MODE_MAPPING_FanAsCool ==
  [off |-> 0, cool |-> 2, dry |-> 1, aIComfort |-> 3, fan |-> 2]

AC_MODE_MAPPING ==
  [off |-> 0, cool |-> 2, dry |-> 1, aIComfort |-> 3, fan |-> 0]

\* The mapping with auto sent as cool.
HOMEKIT_MODE_MAPPING_AutoAsCool ==
  [m \in 0..3 |-> CASE m = 0 -> "off" [] m = 1 -> "dry"
                    [] m = 2 -> "cool" [] m = 3 -> "cool"]

\* The mapping with heat sent as cool.
HOMEKIT_MODE_MAPPING_HeatAsCool ==
  [m \in 0..3 |-> CASE m = 0 -> "off" [] m = 1 -> "cool"
                    [] m = 2 -> "cool" [] m = 3 -> "aIComfort"]

HOMEKIT_MODE_MAPPING ==
  [m \in 0..3 |-> CASE m = 0 -> "off" [] m = 1 -> "dry"
                    [] m = 2 -> "cool" [] m = 3 -> "aIComfort"]

\* AC_MODE_MAPPING[samsungMode] ?? 0
samsungModeToHomeKit(samsungMode) ==
  IF samsungMode \in DOMAIN AC_MODE_MAPPING THEN AC_MODE_MAPPING[samsungMode] ELSE 0

\* HOMEKIT_MODE_MAPPING[homeKitMode] ?? 'off'
homeKitModeToSamsung(homeKitMode) ==
  IF homeKitMode \in DOMAIN HOMEKIT_MODE_MAPPING
    THEN HOMEKIT_MODE_MAPPING[homeKitMode] ELSE "off"

\* Math.max(18, Math.min(30, temperature)), the branch taken when the value is
\* out of range; in range the value is stored as given.
ClampTemperature(temperature) ==
  IF temperature < MIN_TEMP \/ temperature > MAX_TEMP
    THEN Max(MIN_TEMP, Min(MAX_TEMP, temperature))
    ELSE temperature

\* heating + 4 without the ceiling
CoolingFromHeatingUncapped(heating) == heating + AUTO_OFFSET

\* Math.min(heating + 4, 30)
CoolingFromHeating(heating) == Min(heating + AUTO_OFFSET, MAX_TEMP)

\* cooling - 4 without the floor
HeatingFromCoolingUnfloored(cooling) == cooling - AUTO_OFFSET

\* Math.max(cooling - 4, 18)
HeatingFromCooling(cooling) == Max(cooling - AUTO_OFFSET, MIN_TEMP)

\* ------------------------------------------------------------------ state
VARIABLES
  now,                   \* Date.now()
  ticks,                 \* clock advances so far
  nOps,                  \* handler invocations so far
  remote,                \* the device as the cloud holds it
  acStates,              \* SamsungWindowACAccessory.acStates
  characteristicCaches,  \* per-characteristic entries (30 s)
  statusCache,           \* unified status snapshot (5 min)
  calls,                 \* handlers suspended at an await
  last,                  \* the handler that returned most recently
  statusRequests,        \* Date.now() of every unified status request issued
  written,               \* COMPLETED commands so far, per device field
  statusWritten,         \* `written` when the data in statusCache were read
  capturedAt,            \* when the remote produced the status in statusCache, and
                         \* the status each per-characteristic entry was decoded from
  observed,              \* per characteristic, the value last decoded from a
                         \* status or confirmed by a COMPLETED command
  cache,                 \* SamsungWindowACPlatform.cache: temperature, humidity
  sensorRequests,        \* every single-capability sensor request issued
  tm,                    \* TokenManager: accessToken, refreshToken, expiresAt
  tokenFile,             \* tokens.json
  issued,                \* token responses the endpoint has issued so far
  tmPhase,               \* "new", "initializing", "ready": where initialize() is
  callers,               \* TokenManager calls suspended at an await
  nTokenCalls,           \* getAccessToken invocations so far
  exchanges,             \* every refresh exchange sent to the token endpoint
  lastExchange,          \* when the last exchange succeeded, and its expires_in
  tokenReturn,           \* the getAccessToken call that returned most recently,
                         \* with the exchange that granted what it returned
  lastSave,              \* the call that returned from saveStoredTokens() most
                         \* recently, what it wrote and whether the write failed
  exchanged,             \* the refresh tokens the endpoint has exchanged for a
                         \* new pair
  deviceId,              \* SamsungWindowACPlatform.deviceId, 0 for null
  accessories,           \* uuids of the accessories restored from the host's cache
  discoveredCacheUUIDs,  \* uuids pushed by discoverDevices
  hostCalls,             \* accessories created, registered, unregistered and
                         \* handlers constructed, in order
  discovery              \* "idle", "listing", "done": where discoverDevices is

accVars ==
  <<nOps, remote, acStates, characteristicCaches, statusCache, calls, last,
    statusRequests, written, statusWritten, observed, capturedAt>>
platVars == <<cache, sensorRequests>>
tmVars ==
  <<tm, tokenFile, issued, tmPhase, callers, nTokenCalls, exchanges,
    lastExchange, tokenReturn, lastSave, exchanged>>
discVars == <<deviceId, accessories, discoveredCacheUUIDs, hostCalls, discovery>>
vars == <<now, ticks, accVars, platVars, tmVars, discVars>>

\* ------------------------------------------------------------ value shapes
\* deviceId: string | null = null; device ids are numbered from 1.
NO_DEVICE == 0

NoData ==
  [switch |-> "off", mode |-> "off", setpoint |-> 0, temperature |-> 0,
   humidity |-> 0]

RemoteStates ==
  [switch : {"on", "off"}, mode : RemoteModes, setpoint : RemoteSetpoints,
   temperature : RemoteTemperatures, humidity : RemoteHumidities]

\* characteristicCaches[key] === undefined
NoEntry(key) ==
  [has |-> FALSE, value |-> IF key = "Active" THEN FALSE ELSE 0, timestamp |-> 0]

Entry(value, timestamp) == [has |-> TRUE, value |-> value, timestamp |-> timestamp]

\* statusCache === null
NoStatus == [has |-> FALSE, data |-> NoData, timestamp |-> 0]

NoCmd == [command |-> "none", temp |-> 0, mode |-> ""]
SetpointCmd(temperature) ==
  [command |-> "setCoolingSetpoint", temp |-> temperature, mode |-> ""]
ModeCmd(mode) == [command |-> "setAirConditionerMode", temp |-> 0, mode |-> mode]
OffCmd == [command |-> "off", temp |-> 0, mode |-> ""]

InitialAcStates ==
  [Active |-> FALSE,
   CurrentHeatingCoolingState |-> 0,
   TargetHeatingCoolingState |-> 0,
   CurrentTemperature |-> 24,
   TargetTemperature |-> 24,
   CoolingThresholdTemperature |-> 24,
   HeatingThresholdTemperature |-> 24,
   CurrentHumidity |-> 50]

Snapshot == [ac |-> acStates, cc |-> characteristicCaches, sensors |-> cache]
NoSnapshot ==
  [ac |-> InitialAcStates, cc |-> [k \in Keys |-> NoEntry(k)],
   sensors |-> [type \in {"temperature", "humidity"} |-> [has |-> FALSE, value |-> 0, timestamp |-> 0]]]

\* The handler that returned most recently, until the next one is invoked:
\* what it was, what it returned, what it sent, what it found on entry and
\* (for a read) Date.now() on entry.
NoCall ==
  [op |-> "none", kind |-> "none", key |-> "none", temp |-> 0, mode |-> 0,
   flag |-> FALSE, ok |-> FALSE, src |-> "none", boolValue |-> FALSE,
   numValue |-> 0, data |-> NoData, cmds |-> <<>>, results |-> <<>>,
   pre |-> NoSnapshot, entryMode |-> 0, staleFields |-> {}, at |-> 0,
   status |-> "none"]

NoneWritten == [switch |-> 0, mode |-> 0, setpoint |-> 0]

\* No status has been received yet.
NeverCaptured == [status |-> 0, entries |-> [k \in Keys |-> 0]]

\* The device fields a characteristic is decoded from.
FieldsOf(key) ==
  CASE key = "Active" -> {"switch"}
    [] key = "CurrentHeatingCoolingState" -> {"switch", "mode"}
    [] key = "TargetHeatingCoolingState" -> {"mode"}
    [] key = "CurrentTemperature" -> {"temperature"}
    [] key = "TargetTemperature" -> {"setpoint"}
    [] key = "CoolingThresholdTemperature" -> {"setpoint", "mode"}
    [] key = "HeatingThresholdTemperature" -> {"setpoint"}
    [] key = "CurrentHumidity" -> {"humidity"}

\* The device fields a command has COMPLETED on since data were read, the
\* data having been read when `written` was `then`.
WrittenSince(then) == {f \in DOMAIN written : then[f] < written[f]}

\* ------------------------------------------------------------- cache tests
\* characteristicCaches[key] && (now - timestamp) < CHARACTERISTIC_CACHE_DURATION
CharacteristicFresh(key, t) ==
  /\ characteristicCaches[key].has
  /\ (t - characteristicCaches[key].timestamp) < CHARACTERISTIC_CACHE_DURATION

\* The snapshot kept only as long as a per-characteristic entry.
StatusCacheValidForFineTTL(t) ==
  /\ statusCache.has
  /\ (t - statusCache.timestamp) < CHARACTERISTIC_CACHE_DURATION

\* statusCache && (now - statusCache.timestamp) < CACHE_DURATION
StatusCacheValid(t) ==
  /\ statusCache.has
  /\ (t - statusCache.timestamp) < CACHE_DURATION

\* ------------------------------------------------- decoding a status (gets)
\* Each operator is the part of a get handler that runs once a status is at
\* hand: the value it returns and the acStates it leaves.

DecodeActive(status) == status.switch = "on"

DecodeCurrentHeatingCoolingState(status) ==
  IF ~(status.switch = "on")
    THEN 0
    ELSE LET homeKitMode == samsungModeToHomeKit(status.mode)
         IN  IF homeKitMode = 3 THEN 2 ELSE homeKitMode

DecodeTargetHeatingCoolingState(status) == samsungModeToHomeKit(status.mode)

DecodeCoolingThreshold(status) ==
  IF samsungModeToHomeKit(status.mode) = 3
    THEN CoolingFromHeating(status.setpoint)
    ELSE status.setpoint

\* The value a get handler returns for `key` from `status`.
DecodedValue(key, status) ==
  CASE key = "Active" -> DecodeActive(status)
    [] key = "CurrentHeatingCoolingState" -> DecodeCurrentHeatingCoolingState(status)
    [] key = "TargetHeatingCoolingState" -> DecodeTargetHeatingCoolingState(status)
    [] key = "CurrentTemperature" -> status.temperature
    [] key = "TargetTemperature" -> status.setpoint
    [] key = "CoolingThresholdTemperature" -> DecodeCoolingThreshold(status)
    [] key = "HeatingThresholdTemperature" -> status.setpoint
    [] key = "CurrentHumidity" -> status.humidity

\* The acStates a get handler leaves: its own field, and for
\* getTargetTemperature the two thresholds as well.
AcStatesAfterGet(key, status, ac) ==
  IF key = "TargetTemperature"
    THEN [ac EXCEPT !.TargetTemperature = status.setpoint,
                    !.HeatingThresholdTemperature = status.setpoint,
                    !.CoolingThresholdTemperature = DecodeCoolingThreshold(status)]
    ELSE [ac EXCEPT ![key] = DecodedValue(key, status)]

ReturnOfGet(key, src, value, data, stale) ==
  [NoCall EXCEPT !.op = key, !.kind = "get", !.key = key, !.ok = TRUE,
                 !.src = src, !.data = data, !.staleFields = stale,
                 !.boolValue = IF key = "Active" THEN value ELSE FALSE,
                 !.numValue = IF key = "Active" THEN 0 ELSE value]

\* A handler suspended at an await.
\*   phase "fetch":   awaiting platform.getDeviceStatus(), not yet answered
\*   phase "replied": the status response (or the failure) is on its way back
\*   phase "cmd":     awaiting the handler's (first) command
\*   phase "cmd2":    awaiting the setpoint command of the auto compound write
\*   phase "axios":   a call to the platform itself, awaiting axios
CallOf(op, kind, phase) ==
  [id |-> nOps, op |-> op, kind |-> kind, phase |-> phase, temp |-> 0,
   mode |-> 0, flag |-> FALSE, now0 |-> now, respOk |-> FALSE, resp |-> NoData,
   targetTemp |-> 0, cmds |-> <<>>, results |-> <<>>, pre |-> Snapshot,
   entryMode |-> acStates.TargetHeatingCoolingState, respWritten |-> NoneWritten,
   respAt |-> 0]

ReturnOfSet(c, ok, results) ==
  [NoCall EXCEPT !.op = c.op, !.kind = "set", !.temp = c.temp, !.mode = c.mode,
                 !.flag = c.flag, !.ok = ok, !.cmds = c.cmds, !.results = results,
                 !.pre = c.pre, !.entryMode = c.entryMode]

\* updateCharacteristicCache(key, value) for several keys at once
UpdateCaches(cc, keys, ac, t) ==
  [k \in Keys |-> IF k \in keys THEN Entry(ac[k], t) ELSE cc[k]]

\* ------------------------------------------------------------- the remote
\* What a COMPLETED command does to the device.
ApplyCommand(dev, cmd) ==
  CASE cmd.command = "setCoolingSetpoint" -> [dev EXCEPT !.setpoint = cmd.temp]
    [] cmd.command = "setAirConditionerMode" -> [dev EXCEPT !.mode = cmd.mode]
    [] cmd.command = "off" -> [dev EXCEPT !.switch = "off"]
    [] OTHER -> dev

\* platform.setTargetTemperature / setACMode / turnOffAC: true exactly when the
\* remote answers COMPLETED.
RemoteAfter(cmd, ok) == IF ok THEN ApplyCommand(remote, cmd) ELSE remote

FieldOfCommand(cmd) ==
  CASE cmd.command = "setCoolingSetpoint" -> "setpoint"
    [] cmd.command = "setAirConditionerMode" -> "mode"
    [] cmd.command = "off" -> "switch"

\* The sensor readings the platform caches.
Sensors == {"temperature", "humidity"}

\* { value: null, timestamp: 0 }
NoSensorEntry == [has |-> FALSE, value |-> 0, timestamp |-> 0]

\* platform.cache as constructed, and after invalidateCache()
EmptyCache == [type \in Sensors |-> NoSensorEntry]

\* invalidateCache(type) for every type in `types`
InvalidateCache(c, types) ==
  [type \in Sensors |-> IF type \in types THEN NoSensorEntry ELSE c[type]]

\* Every command invalidating both sensor entries.
InvalidatedByAnyCommand(cmd) == Sensors

\* The sensor entries a COMPLETED command invalidates: setTargetTemperature
\* 'temperature'; setACMode and turnOffAC 'temperature' and 'humidity'.
InvalidatedBy(cmd) ==
  IF cmd.command = "setCoolingSetpoint" THEN {"temperature"} ELSE Sensors

\* The command reaches the remote and is answered.
Command(cmd, ok) ==
  /\ remote' = RemoteAfter(cmd, ok)
  /\ cache' = IF ok THEN InvalidateCache(cache, InvalidatedBy(cmd)) ELSE cache
  /\ written' = IF ok THEN [written EXCEPT ![FieldOfCommand(cmd)] = @ + 1]
                      ELSE written

\* ------------------------------------------------------------ get handlers
\* getActive ... getCurrentHumidity up to the await of the status request:
\* served from the per-characteristic entry, from the status snapshot, or
\* suspended on platform.getDeviceStatus().  The await of a status that the
\* snapshot already holds is taken together with the code that follows it.
StartGet(key, limit) ==
  /\ nOps < limit.ops
  /\ Cardinality(calls) < limit.inflight
  /\ nOps' = nOps + 1
  /\ IF CharacteristicFresh(key, now)
       THEN /\ last' = [ReturnOfGet(key, "cached", characteristicCaches[key].value,
                                         NoData, {}) EXCEPT !.at = now]
            /\ UNCHANGED <<acStates, characteristicCaches, calls, statusRequests,
                           observed, capturedAt>>
       ELSE IF StatusCacheValid(now)
         THEN LET status == statusCache.data
                  value == DecodedValue(key, status)
              IN  /\ acStates' = AcStatesAfterGet(key, status, acStates)
                  /\ observed' = AcStatesAfterGet(key, status, observed)
                  /\ characteristicCaches' =
                       [characteristicCaches EXCEPT ![key] = Entry(value, now)]
                  /\ last' = [ReturnOfGet(key, "snapshot", value, status,
                                              WrittenSince(statusWritten))
                                EXCEPT !.at = now]
                  /\ capturedAt' = [capturedAt EXCEPT !.entries[key] = capturedAt.status]
                  /\ UNCHANGED <<calls, statusRequests>>
         ELSE /\ calls' = calls \cup {[CallOf(key, "get", "fetch") EXCEPT !.pre = NoSnapshot]}
              /\ statusRequests' = Append(statusRequests, now)
              /\ last' = NoCall
              /\ UNCHANGED <<acStates, characteristicCaches, observed, capturedAt>>
  /\ UNCHANGED <<now, ticks, remote, statusCache, written, statusWritten,
                 platVars, tmVars, discVars>>

\* platform.getDeviceStatus(): the unified status, or null on failure.
ReplyStatus(c) ==
  /\ c \in calls
  /\ c.phase = "fetch"
  /\ \E ok \in BOOLEAN :
       calls' = (calls \ {c}) \cup
                {[c EXCEPT !.phase = "replied", !.respOk = ok,
                           !.resp = IF ok THEN remote ELSE NoData,
                           !.respWritten = IF ok THEN written ELSE NoneWritten,
                           !.respAt = now]}
  /\ UNCHANGED <<now, ticks, nOps, remote, acStates, characteristicCaches,
                 statusCache, last, statusRequests, written, statusWritten,
                 observed, capturedAt, platVars, tmVars, discVars>>

\* The rest of getDeviceStatus and of the get handler, after the await.
FinishGet(c) ==
  /\ c \in calls
  /\ c.phase = "replied"
  /\ calls' = calls \ {c}
  /\ IF c.respOk
       THEN LET value == DecodedValue(c.op, c.resp)
            IN  /\ statusCache' = [has |-> TRUE, data |-> c.resp, timestamp |-> c.now0]
                /\ statusWritten' = c.respWritten
                /\ acStates' = AcStatesAfterGet(c.op, c.resp, acStates)
                /\ observed' = AcStatesAfterGet(c.op, c.resp, observed)
                /\ characteristicCaches' =
                     [characteristicCaches EXCEPT ![c.op] = Entry(value, c.now0)]
                /\ capturedAt' = [status |-> c.respAt,
                                  entries |-> [capturedAt.entries EXCEPT ![c.op] = c.respAt]]
                /\ last' = [ReturnOfGet(c.op, "remote", value, c.resp,
                                         WrittenSince(c.respWritten))
                              EXCEPT !.at = c.now0]
       ELSE /\ last' = [ReturnOfGet(c.op, "fallback", acStates[c.op], NoData, {})
                          EXCEPT !.at = c.now0]
            /\ UNCHANGED <<statusCache, statusWritten, acStates, characteristicCaches,
                           observed, capturedAt>>
  /\ UNCHANGED <<now, ticks, nOps, remote, statusRequests, written, platVars,
                 tmVars, discVars>>

\* ------------------------------------------------------------ set handlers
\* What `observed` becomes when the set handler `c` resumes: once it has
\* returned success, the acStates fields that differ from their values on
\* entry are confirmed by the COMPLETED command.
Confirm(c) ==
  observed' =
    IF c.id \notin {d.id : d \in calls'} /\ last'.ok
      THEN [k \in Keys |-> IF acStates'[k] # c.pre.ac[k] THEN acStates'[k]
                                                          ELSE observed[k]]
      ELSE observed

SetFrame ==
  UNCHANGED <<now, ticks, statusCache, statusRequests, statusWritten,
              capturedAt, sensorRequests, tmVars, discVars>>

CanStart(limit) == nOps < limit.ops /\ Cardinality(calls) < limit.inflight

\* setActive(value), up to the await of setACMode / turnOffAC
StartSetActive(isActive, limit) ==
  /\ CanStart(limit)
  /\ nOps' = nOps + 1
  /\ LET cmd == IF isActive
                  THEN ModeCmd(homeKitModeToSamsung(acStates.TargetHeatingCoolingState))
                  ELSE OffCmd
     IN  calls' = calls \cup
           {[CallOf("setActive", "set", "cmd") EXCEPT !.flag = isActive, !.cmds = <<cmd>>]}
  /\ last' = NoCall
  /\ UNCHANGED <<remote, written, cache, observed, acStates, characteristicCaches>>
  /\ SetFrame

\* acStates after setActive's command succeeded
AcStatesAfterSetActive(ac, isActive) ==
  IF isActive
    THEN [ac EXCEPT !.Active = TRUE,
                    !.CurrentHeatingCoolingState = ac.TargetHeatingCoolingState]
    ELSE [ac EXCEPT !.Active = FALSE,
                    !.CurrentHeatingCoolingState = 0,
                    !.TargetHeatingCoolingState = 0]

FinishSetActive(c) ==
  /\ c \in calls
  /\ c.op = "setActive" /\ c.phase = "cmd"
  /\ calls' = calls \ {c}
  /\ nOps' = nOps
  /\ \E success \in BOOLEAN :
       /\ Command(c.cmds[1], success)
       /\ last' = ReturnOfSet(c, success, <<success>>)
       /\ IF success
            THEN LET ac == AcStatesAfterSetActive(acStates, c.flag)
                 IN  /\ acStates' = ac
                     /\ characteristicCaches' =
                          UpdateCaches(characteristicCaches,
                            {"Active", "CurrentHeatingCoolingState",
                             "TargetHeatingCoolingState"}, ac, now)
            ELSE UNCHANGED <<acStates, characteristicCaches>>
  /\ SetFrame
  /\ Confirm(c)

\* setTargetHeatingCoolingState(value), up to the await of the first command;
\* targetTemp is read before the await.
StartSetTargetHeatingCoolingState(homeKitMode, limit) ==
  /\ CanStart(limit)
  /\ nOps' = nOps + 1
  /\ LET samsungMode == homeKitModeToSamsung(homeKitMode)
         cmd == IF homeKitMode = 0 THEN OffCmd ELSE ModeCmd(samsungMode)
     IN  calls' = calls \cup
           {[CallOf("setTargetHeatingCoolingState", "set", "cmd") EXCEPT
               !.mode = homeKitMode, !.cmds = <<cmd>>,
               !.targetTemp = acStates.HeatingThresholdTemperature]}
  /\ last' = NoCall
  /\ UNCHANGED <<remote, written, cache, observed, acStates, characteristicCaches>>
  /\ SetFrame

\* CurrentHeatingCoolingState cannot be Auto (3), so convert Auto to Cool (2)
CurrentStateOf(homeKitMode) == IF homeKitMode = 3 THEN 2 ELSE homeKitMode

\* The `if (success)` block of setTargetHeatingCoolingState.
AcStatesAfterSetMode(ac, homeKitMode) ==
  [ac EXCEPT !.TargetHeatingCoolingState = homeKitMode,
             !.CurrentHeatingCoolingState =
                IF ac.Active THEN CurrentStateOf(homeKitMode)
                             ELSE ac.CurrentHeatingCoolingState,
             !.Active = (homeKitMode # 0)]

\* The caches the success block writes. CurrentHeatingCoolingState and the
\* three temperatures are written before Active is assigned.
CachesAfterSetMode(cc, ac, homeKitMode, t) ==
  UpdateCaches(cc,
    {"TargetHeatingCoolingState", "CurrentHeatingCoolingState", "Active"}
      \cup (IF homeKitMode = 3
              THEN {"HeatingThresholdTemperature", "CoolingThresholdTemperature",
                    "TargetTemperature"}
              ELSE {}),
    ac, t)

\* After the first command: for auto, on success, the setpoint command is sent
\* and the handler suspends again; otherwise the handler runs to its end.
FinishModeCommand(c) ==
  /\ c \in calls
  /\ c.op = "setTargetHeatingCoolingState" /\ c.phase = "cmd"
  /\ nOps' = nOps
  /\ \E success \in BOOLEAN :
       /\ Command(c.cmds[1], success)
       /\ IF c.mode = 3 /\ success
            THEN /\ calls' = (calls \ {c}) \cup
                       {[c EXCEPT !.phase = "cmd2",
                                  !.cmds = Append(c.cmds, SetpointCmd(c.targetTemp)),
                                  !.results = <<success>>]}
                 /\ UNCHANGED <<acStates, characteristicCaches, last>>
            ELSE /\ calls' = calls \ {c}
                 /\ last' = ReturnOfSet(c, success, <<success>>)
                 /\ IF success
                      THEN LET ac == AcStatesAfterSetMode(acStates, c.mode)
                           IN  /\ acStates' = ac
                               /\ characteristicCaches' =
                                    CachesAfterSetMode(characteristicCaches, ac, c.mode, now)
                      ELSE UNCHANGED <<acStates, characteristicCaches>>
  /\ SetFrame
  /\ Confirm(c)

\* After the setpoint command of the compound write, whose result is not
\* looked at: the cooling threshold is derived from targetTemp and the success
\* block runs.
FinishAutoSetpoint(c) ==
  /\ c \in calls
  /\ c.op = "setTargetHeatingCoolingState" /\ c.phase = "cmd2"
  /\ nOps' = nOps
  /\ calls' = calls \ {c}
  /\ \E completed \in BOOLEAN :
       /\ Command(c.cmds[2], completed)
       /\ last' = ReturnOfSet(c, TRUE, Append(c.results, completed))
       /\ LET ac0 == [acStates EXCEPT
                        !.CoolingThresholdTemperature = CoolingFromHeating(c.targetTemp)]
              ac == AcStatesAfterSetMode(ac0, c.mode)
          IN  /\ acStates' = ac
              /\ characteristicCaches' =
                   CachesAfterSetMode(characteristicCaches, ac, c.mode, now)
  /\ SetFrame
  /\ Confirm(c)

\* setTargetTemperature(value), up to the await: the value goes to the
\* platform as given.
StartSetTargetTemperature(temperature, limit) ==
  /\ CanStart(limit)
  /\ nOps' = nOps + 1
  /\ calls' = calls \cup
       {[CallOf("setTargetTemperature", "set", "cmd") EXCEPT
           !.temp = temperature, !.cmds = <<SetpointCmd(temperature)>>]}
  /\ last' = NoCall
  /\ UNCHANGED <<remote, written, cache, observed, acStates, characteristicCaches>>
  /\ SetFrame

\* acStates after setTargetTemperature's command succeeded
AcStatesAfterSetTargetTemperature(ac, temperature) ==
  [ac EXCEPT !.TargetTemperature = temperature,
             !.HeatingThresholdTemperature = temperature,
             !.CoolingThresholdTemperature =
                IF ac.TargetHeatingCoolingState = 3
                  THEN CoolingFromHeating(temperature)
                  ELSE temperature]

TemperatureKeys ==
  {"TargetTemperature", "HeatingThresholdTemperature", "CoolingThresholdTemperature"}

FinishSetTargetTemperature(c) ==
  /\ c \in calls
  /\ c.op = "setTargetTemperature" /\ c.phase = "cmd"
  /\ calls' = calls \ {c}
  /\ nOps' = nOps
  /\ \E success \in BOOLEAN :
       /\ Command(c.cmds[1], success)
       /\ last' = ReturnOfSet(c, success, <<success>>)
       /\ IF success
            THEN LET ac == AcStatesAfterSetTargetTemperature(acStates, c.temp)
                 IN  /\ acStates' = ac
                     /\ characteristicCaches' =
                          UpdateCaches(characteristicCaches, TemperatureKeys, ac, now)
            ELSE UNCHANGED <<acStates, characteristicCaches>>
  /\ SetFrame
  /\ Confirm(c)

\* acStates when setCoolingThresholdTemperature reaches its await (auto) or
\* its end (any other mode): assigned before any command is sent.
AcStatesOnSetCooling(ac, temperature) ==
  LET cooling == ClampTemperature(temperature)
  IN  IF ac.TargetHeatingCoolingState = 3
        THEN [ac EXCEPT !.CoolingThresholdTemperature = cooling,
                        !.HeatingThresholdTemperature = HeatingFromCooling(cooling)]
        ELSE [ac EXCEPT !.CoolingThresholdTemperature = cooling]

\* setCoolingThresholdTemperature(value): outside auto it ends here, having
\* sent nothing; in auto it sends the derived heating threshold and suspends.
StartSetCoolingThresholdTemperature(temperature, limit) ==
  /\ CanStart(limit)
  /\ nOps' = nOps + 1
  /\ LET ac == AcStatesOnSetCooling(acStates, temperature)
         c == [CallOf("setCoolingThresholdTemperature", "set", "cmd") EXCEPT
                 !.temp = temperature]
     IN  /\ acStates' = ac
         /\ IF acStates.TargetHeatingCoolingState = 3
              THEN /\ calls' = calls \cup
                        {[c EXCEPT !.cmds = <<SetpointCmd(ac.HeatingThresholdTemperature)>>]}
                   /\ last' = NoCall
              ELSE /\ last' = ReturnOfSet(c, TRUE, <<>>)
                   /\ UNCHANGED calls
  /\ UNCHANGED <<remote, written, cache, observed, characteristicCaches>>
  /\ SetFrame

\* acStates when setHeatingThresholdTemperature reaches its await: assigned
\* before the command is sent.
AcStatesOnSetHeating(ac, temperature) ==
  LET heating == ClampTemperature(temperature)
  IN  IF ac.TargetHeatingCoolingState = 3
        THEN [ac EXCEPT !.HeatingThresholdTemperature = heating,
                        !.CoolingThresholdTemperature = CoolingFromHeating(heating)]
        ELSE [ac EXCEPT !.HeatingThresholdTemperature = heating]

StartSetHeatingThresholdTemperature(temperature, limit) ==
  /\ CanStart(limit)
  /\ nOps' = nOps + 1
  /\ LET ac == AcStatesOnSetHeating(acStates, temperature)
     IN  /\ acStates' = ac
         /\ calls' = calls \cup
              {[CallOf("setHeatingThresholdTemperature", "set", "cmd") EXCEPT
                  !.temp = temperature,
                  !.cmds = <<SetpointCmd(ac.HeatingThresholdTemperature)>>]}
  /\ last' = NoCall
  /\ UNCHANGED <<remote, written, cache, observed, characteristicCaches>>
  /\ SetFrame

\* The part after the await shared by the two threshold handlers: on success
\* TargetTemperature takes the heating threshold held then, and the three
\* temperature entries are written.
FinishSetThreshold(c) ==
  /\ c \in calls
  /\ c.op \in {"setCoolingThresholdTemperature", "setHeatingThresholdTemperature"}
  /\ c.phase = "cmd"
  /\ calls' = calls \ {c}
  /\ nOps' = nOps
  /\ \E success \in BOOLEAN :
       /\ Command(c.cmds[1], success)
       /\ last' = ReturnOfSet(c, success, <<success>>)
       /\ IF success
            THEN LET ac == [acStates EXCEPT
                              !.TargetTemperature = acStates.HeatingThresholdTemperature]
                 IN  /\ acStates' = ac
                     /\ characteristicCaches' =
                          UpdateCaches(characteristicCaches, TemperatureKeys, ac, now)
            ELSE UNCHANGED <<acStates, characteristicCaches>>
  /\ SetFrame
  /\ Confirm(c)


\* ------------------------------------------- platform sensor reads (5 min)
\* Calls to the platform per behaviour (SpecPlatform).
MaxPlatformOps == 3

\* What a sensor reports in the remote's status.
SensorOf(type) == IF type = "temperature" THEN remote.temperature ELSE remote.humidity

\* isCacheValid(cache[type].timestamp) alone, without the test for null
SensorCacheValidByAge(type, t) == t - cache[type].timestamp < CACHE_DURATION

\* cache[type].value !== null && isCacheValid(cache[type].timestamp)
SensorCacheValid(type, t) ==
  /\ cache[type].has
  /\ t - cache[type].timestamp < CACHE_DURATION

\* What platform.getCurrentTemperature() / getCurrentHumidity() returned:
\* src "cached", "remote", "expired" (the entry past its TTL) or "null".
ReturnOfSensor(type, src, value, at) ==
  [NoCall EXCEPT !.op = type, !.kind = "sensor", !.key = type,
                 !.ok = src # "null", !.src = src, !.numValue = value,
                 !.at = at]

\* platform.getCurrentTemperature() / getCurrentHumidity() up to the await of
\* axios.get; null at once while deviceId is null.
StartSensorRead(type, limit) ==
  /\ CanStart(limit)
  /\ nOps' = nOps + 1
  /\ IF deviceId = NO_DEVICE
       THEN /\ last' = ReturnOfSensor(type, "null", 0, now)
            /\ UNCHANGED <<calls, sensorRequests>>
     ELSE IF SensorCacheValid(type, now)
       THEN /\ last' = ReturnOfSensor(type, "cached", cache[type].value, now)
            /\ UNCHANGED <<calls, sensorRequests>>
       ELSE /\ calls' = calls \cup
                 {[CallOf(type, "sensor", "axios") EXCEPT !.pre = NoSnapshot]}
            /\ sensorRequests' = Append(sensorRequests, [type |-> type, at |-> now])
            /\ last' = NoCall
  /\ UNCHANGED <<now, ticks, remote, acStates, characteristicCaches, statusCache,
                 statusRequests, written, statusWritten, observed, capturedAt,
                 cache, tmVars, discVars>>

\* After axios.get: updateCache(type, value) on a response; in the catch block
\* the entry's value, if there is one, whatever its age, else null.
FinishSensorRead(c) ==
  /\ c \in calls
  /\ c.kind = "sensor"
  /\ calls' = calls \ {c}
  /\ \E ok \in BOOLEAN :
       IF ok
         THEN /\ cache' = [cache EXCEPT ![c.op] =
                             [has |-> TRUE, value |-> SensorOf(c.op), timestamp |-> now]]
              /\ last' = ReturnOfSensor(c.op, "remote", SensorOf(c.op), c.now0)
         ELSE /\ last' = IF cache[c.op].has
                           THEN ReturnOfSensor(c.op, "expired", cache[c.op].value, c.now0)
                           ELSE ReturnOfSensor(c.op, "null", 0, c.now0)
              /\ UNCHANGED cache
  /\ UNCHANGED <<now, ticks, nOps, remote, acStates, characteristicCaches,
                 statusCache, statusRequests, written, statusWritten, observed,
                 capturedAt, sensorRequests, tmVars, discVars>>

\* What platform.setTargetTemperature / setACMode / turnOffAC returned, with
\* the status of the result it was given ("none" when no request was sent,
\* "error" when axios.post threw) and the state it was called in.
ReturnOfCommand(cmd, ok, status, pre) ==
  [NoCall EXCEPT !.op = cmd.command, !.kind = "command", !.ok = ok,
                 !.cmds = <<cmd>>, !.results = <<ok>>, !.status = status,
                 !.pre = pre]

\* platform.setTargetTemperature / setACMode / turnOffAC called directly, up
\* to the await of axios.post; false at once while deviceId is null.
StartPlatformCommand(cmd, limit) ==
  /\ CanStart(limit)
  /\ nOps' = nOps + 1
  /\ IF deviceId = NO_DEVICE
       THEN /\ last' = ReturnOfCommand(cmd, FALSE, "none", Snapshot)
            /\ UNCHANGED calls
       ELSE /\ calls' = calls \cup
                 {[CallOf(cmd.command, "command", "axios") EXCEPT !.cmds = <<cmd>>]}
            /\ last' = NoCall
  /\ UNCHANGED <<remote, written, cache, observed, acStates, characteristicCaches>>
  /\ SetFrame

\* What axios.post of a command can come to: results[0].status as the cloud
\* gives it, or a throw.
CommandOutcomes == {"COMPLETED", "ACCEPTED", "FAILED", "error"}

\* result.status !== 'COMPLETED' only fails in the catch block
CommandSucceededUnlessThrown(status) == status # "error"

\* result.status === 'COMPLETED'
CommandSucceeded(status) == status = "COMPLETED"

\* After axios.post: true and the invalidation when the result is COMPLETED,
\* false for any other status and in the catch block.
FinishPlatformCommand(c) ==
  /\ c \in calls
  /\ c.kind = "command"
  /\ calls' = calls \ {c}
  /\ nOps' = nOps
  /\ \E status \in CommandOutcomes :
       /\ Command(c.cmds[1], CommandSucceeded(status))
       /\ last' = ReturnOfCommand(c.cmds[1], CommandSucceeded(status), status, c.pre)
  /\ UNCHANGED <<acStates, characteristicCaches, observed>>
  /\ SetFrame

\* -------------------------------------------------------------- discovery
\* The name or label discovery looks for.
SENTINEL == "Samsung Window A/C"

\* Devices the account may list, and accessories the host may have cached.
MaxDevices == 2
MaxRestored == 2

DeviceIds == 1..3

\* SmartThingsDevice: deviceId, name, label
Devices == [deviceId : DeviceIds, name : {SENTINEL, "TV"}, label : {SENTINEL, "Bedroom"}]

\* response.data.items of GET /v1/devices
DeviceLists == UNION {[1..n -> Devices] : n \in 0..MaxDevices}

\* The keys of `accessories` in insertion order, as configureAccessory left
\* them: the host restores each cached accessory once.
RestoredInputs ==
  {r \in UNION {[1..n -> DeviceIds] : n \in 0..MaxRestored} :
     \A i, j \in DOMAIN r : i # j => r[i] # r[j]}

\* api.hap.uuid.generate(uniqueId): one uuid per device id.
UuidOf(id) == id

\* Any listed device taken for the air conditioner.
IsListed(device) == device.deviceId \in DeviceIds

\* device.name === 'Samsung Window A/C' || device.label === 'Samsung Window A/C'
IsSentinel(device) == device.name = SENTINEL \/ device.label = SENTINEL

NoDeviceInfo == [deviceId |-> NO_DEVICE, name |-> "none", label |-> "none"]

\* getDeviceId(): the first listed device that is the sentinel; null when there
\* is none and when the request throws.
GetDeviceId(reply) ==
  IF reply.error THEN NoDeviceInfo
  ELSE LET found == {i \in DOMAIN reply.items : IsSentinel(reply.items[i])}
       IN IF found = {} THEN NoDeviceInfo
          ELSE reply.items[CHOOSE i \in found : \A j \in found : i <= j]

\* What GET /v1/devices can come to.
DeviceReplies ==
  {[error |-> TRUE, items |-> <<>>]} \cup
  {[error |-> FALSE, items |-> items] : items \in DeviceLists}

HostCall(call, uuid) == [call |-> call, uuid |-> uuid]

\* The loop over `accessories`: unregisterPlatformAccessories for every
\* restored accessory whose uuid discoveredCacheUUIDs does not include.
RECURSIVE Unregistered(_, _)
Unregistered(restored, discovered) ==
  IF restored = <<>> THEN <<>>
  ELSE (IF Head(restored) \in discovered THEN <<>>
        ELSE <<HostCall("unregister", Head(restored))>>)
       \o Unregistered(Tail(restored), discovered)

IsRestored(uuid) == \E i \in DOMAIN accessories : accessories[i] = uuid

\* The platform as constructed, once the host has restored its cached
\* accessories and before didFinishLaunching.
PlatformConstructed ==
  /\ deviceId = NO_DEVICE
  /\ accessories \in RestoredInputs
  /\ discoveredCacheUUIDs = {}
  /\ hostCalls = <<>>
  /\ discovery = "idle"

\* The platform an accessory's handlers run in: discovery has found the device
\* and registered its accessory.
PlatformDiscovered ==
  /\ deviceId = 1
  /\ accessories = <<>>
  /\ discoveredCacheUUIDs = {UuidOf(1)}
  /\ hostCalls = <<HostCall("create", UuidOf(1)), HostCall("handler", UuidOf(1)),
                   HostCall("register", UuidOf(1))>>
  /\ discovery = "done"

\* didFinishLaunching: discoverDevices() up to the await of axios.get in
\* getDeviceId().
StartDiscoverDevices ==
  /\ discovery = "idle"
  /\ discovery' = "listing"
  /\ UNCHANGED <<deviceId, accessories, discoveredCacheUUIDs, hostCalls>>
  /\ UNCHANGED <<now, ticks, accVars, platVars, tmVars>>

\* discoverDevices() after getDeviceId(): return on null; else deviceId, the
\* handler for the restored accessory or a new accessory with its handler and
\* its registration, the uuid pushed, and the unregistration of the rest.
FinishDiscoverDevices(reply) ==
  /\ discovery = "listing"
  /\ discovery' = "done"
  /\ LET deviceInfo == GetDeviceId(reply)
         uuid == UuidOf(deviceInfo.deviceId)
     IN IF deviceInfo = NoDeviceInfo
          THEN UNCHANGED <<deviceId, discoveredCacheUUIDs, hostCalls>>
          ELSE /\ deviceId' = deviceInfo.deviceId
               /\ discoveredCacheUUIDs' = discoveredCacheUUIDs \cup {uuid}
               /\ hostCalls' =
                    hostCalls
                    \o (IF IsRestored(uuid)
                          THEN <<HostCall("handler", uuid)>>
                          ELSE <<HostCall("create", uuid), HostCall("handler", uuid),
                                 HostCall("register", uuid)>>)
                    \o Unregistered(accessories, discoveredCacheUUIDs \cup {uuid})
  /\ UNCHANGED accessories
  /\ UNCHANGED <<now, ticks, accVars, platVars, tmVars>>

\* ------------------------------------------------------------ TokenManager
\* Tokens are numbered: 0 is null, 1 the refresh token given to the
\* constructor, 2 the pair a tokens.json left by an earlier run holds, and
\* 3, 4, ... the pairs the endpoint issues (access and refresh token of one
\* response carry the same number).
INITIAL_REFRESH_TOKEN == 1
STORED_TOKEN == 2

\* The 5 minute buffer, 5 * 60 * 1000
REFRESH_MARGIN == 5 * 60 * 1000

\* expires_in (seconds) the endpoint may declare: 4 minutes, 10 minutes.
Lifetimes == {240, 600}
\* expiresAt a tokens.json left by an earlier run may hold: 4 and 10 minutes
\* after the start.
StoredExpiries == {240000, 600000}
\* getAccessToken invocations per behaviour, and how many may overlap.
MaxTokenCalls == 2
MaxCallers == 2
MaxTokenTicks == 1

NoFile == [has |-> FALSE, accessToken |-> 0, refreshToken |-> 0, expiresAt |-> 0]
NoReturn ==
  [has |-> FALSE, id |-> 0, token |-> 0, expiresAt |-> 0, at |-> 0,
   refreshed |-> FALSE, threw |-> FALSE,
   grant |-> [at |-> 0, lifetime |-> 0]]

NoSave == [has |-> FALSE, by |-> 0, op |-> "none", wrote |-> FALSE, triple |-> NoFile]

\* new TokenManager(...): accessToken null, refreshToken the initial one
TMConstructed ==
  /\ tm = [accessToken |-> 0, refreshToken |-> INITIAL_REFRESH_TOKEN, expiresAt |-> 0]
  /\ issued = STORED_TOKEN
  /\ tmPhase = "new"
  /\ callers = {}
  /\ nTokenCalls = 0
  /\ exchanges = <<>>
  /\ lastExchange = [at |-> 0, lifetime |-> 0]
  /\ tokenReturn = NoReturn
  /\ lastSave = NoSave
  /\ exchanged = {}

\* !this.accessToken || Date.now() >= this.expiresAt - 5 * 60 * 1000
\* getAccessToken() without the safety margin: refresh only at the expiry itself
NeedsRefreshAtExpiry(t) == tm.accessToken = 0 \/ t >= tm.expiresAt

NeedsRefresh(t) == tm.accessToken = 0 \/ t >= tm.expiresAt - REFRESH_MARGIN

\* The stored token taken as valid up to its expiry, without the buffer.
StoredStillValidAtExpiry(t, expiresAt) == t < expiresAt

\* Date.now() < this.expiresAt - 5 * 60 * 1000, on the tokens just loaded
StoredStillValid(t, expiresAt) == t < expiresAt - REFRESH_MARGIN

\* Date.now() + response.data.expires_in * 1000
ExpiryOf(t, expires_in) == t + expires_in * 1000

TMFrame == UNCHANGED <<ticks, accVars, platVars, discVars>>

\* refreshTokens() sending the constructor's initialRefreshToken instead of
\* this.refreshToken.
SendExchangeWithInitialToken(c, refreshToken) ==
  /\ callers' = (callers \ {c}) \cup
                {[c EXCEPT !.pc = "exchange", !.sent = INITIAL_REFRESH_TOKEN]}
  /\ exchanges' = Append(exchanges, [sent |-> INITIAL_REFRESH_TOKEN, by |-> c.id])

\* refreshTokens() up to the await of axios.post: the request carries
\* this.refreshToken as it is now.
SendExchange(c, refreshToken) ==
  /\ callers' = (callers \ {c}) \cup
                {[c EXCEPT !.pc = "exchange", !.sent = refreshToken]}
  /\ exchanges' = Append(exchanges, [sent |-> refreshToken, by |-> c.id])

CallerOf(id, op) ==
  [id |-> id, op |-> op, pc |-> "start", sent |-> 0, triple |-> NoFile,
   entry |-> tm]

\* initialize() up to its first await: fs.existsSync, then readFile or, with
\* no file, refreshTokens().
StartInitialize ==
  /\ tmPhase = "new"
  /\ tmPhase' = "initializing"
  /\ LET c == CallerOf(0, "initialize")
     IN  IF tokenFile.has
           THEN /\ callers' = callers \cup {[c EXCEPT !.pc = "load"]}
                /\ UNCHANGED exchanges
           ELSE SendExchange(c, tm.refreshToken)
  /\ UNCHANGED <<now, tm, tokenFile, issued, nTokenCalls, lastExchange, tokenReturn,
                 lastSave, exchanged>>
  /\ TMFrame

\* loadStoredTokens() assigning only accessToken and expiresAt from the file
\* and keeping the refresh token it holds.
FinishLoadKeepingRefreshToken(c) ==
  /\ c \in callers
  /\ c.pc = "load"
  /\ \E readOk \in BOOLEAN :
       LET loaded == IF readOk
                       THEN [accessToken |-> tokenFile.accessToken,
                             refreshToken |-> tm.refreshToken,
                             expiresAt |-> tokenFile.expiresAt]
                       ELSE tm
       IN  /\ tm' = loaded
           /\ IF readOk /\ StoredStillValid(now, loaded.expiresAt)
                THEN /\ callers' = callers \ {c}
                     /\ tmPhase' = "ready"
                     /\ UNCHANGED exchanges
                ELSE /\ SendExchange(c, loaded.refreshToken)
                     /\ UNCHANGED tmPhase
  /\ UNCHANGED <<now, tokenFile, issued, nTokenCalls, lastExchange, tokenReturn,
                 lastSave, exchanged>>
  /\ TMFrame

\* loadStoredTokens() after readFile, and initialize() up to its return or to
\* the await in refreshTokens(). A read or parse error leaves the fields alone.
FinishLoad(c) ==
  /\ c \in callers
  /\ c.pc = "load"
  /\ \E readOk \in BOOLEAN :
       LET loaded == IF readOk
                       THEN [accessToken |-> tokenFile.accessToken,
                             refreshToken |-> tokenFile.refreshToken,
                             expiresAt |-> tokenFile.expiresAt]
                       ELSE tm
       IN  /\ tm' = loaded
           /\ IF readOk /\ StoredStillValid(now, loaded.expiresAt)
                THEN /\ callers' = callers \ {c}
                     /\ tmPhase' = "ready"
                     /\ UNCHANGED exchanges
                ELSE /\ SendExchange(c, loaded.refreshToken)
                     /\ UNCHANGED tmPhase
  /\ UNCHANGED <<now, tokenFile, issued, nTokenCalls, lastExchange, tokenReturn,
                 lastSave, exchanged>>
  /\ TMFrame

\* getAccessToken() up to its return or to the await in refreshTokens()
StartGetAccessToken ==
  /\ tmPhase = "ready"
  /\ nTokenCalls < MaxTokenCalls
  /\ Cardinality(callers) < MaxCallers
  /\ nTokenCalls' = nTokenCalls + 1
  /\ LET c == CallerOf(nTokenCalls + 1, "getAccessToken")
     IN  IF NeedsRefresh(now)
           THEN /\ SendExchange(c, tm.refreshToken)
                /\ tokenReturn' = NoReturn
           ELSE /\ tokenReturn' =
                     [NoReturn EXCEPT !.has = TRUE, !.id = c.id,
                                      !.token = tm.accessToken,
                                      !.expiresAt = tm.expiresAt, !.at = now,
                                      !.grant = lastExchange]
                /\ UNCHANGED <<callers, exchanges>>
  /\ UNCHANGED <<now, tm, tokenFile, issued, tmPhase, lastExchange, lastSave,
                 exchanged>>
  /\ TMFrame

\* The error of the exchange logged and not rethrown.
ThrowSwallowed(c) ==
  /\ callers' = callers \ {c}
  /\ tmPhase' = IF c.op = "initialize" THEN "ready" ELSE tmPhase
  /\ tokenReturn' = tokenReturn

\* The caller's promise rejects: refreshTokens() rethrows and so do
\* initialize() and getAccessToken().
Throw(c) ==
  /\ callers' = callers \ {c}
  /\ tmPhase' = IF c.op = "initialize" THEN "ready" ELSE tmPhase
  /\ tokenReturn' = IF c.op = "getAccessToken"
                      THEN [NoReturn EXCEPT !.id = c.id, !.threw = TRUE]
                      ELSE tokenReturn

\* refreshTokens() after axios.post: on a response the three fields are
\* assigned together and saveStoredTokens() builds the object to write; then
\* the await of mkdir/writeFile.
FinishExchange(c) ==
  /\ c \in callers
  /\ c.pc = "exchange"
  /\ \/ \E expires_in \in Lifetimes :
          LET token == issued + 1
              fields == [accessToken |-> token, refreshToken |-> token,
                         expiresAt |-> ExpiryOf(now, expires_in)]
          IN  /\ issued' = token
              /\ tm' = fields
              /\ lastExchange' = [at |-> now, lifetime |-> expires_in]
              /\ exchanged' = exchanged \cup {c.sent}
              /\ callers' = (callers \ {c}) \cup
                   {[c EXCEPT !.pc = "save",
                              !.triple = [has |-> TRUE,
                                          accessToken |-> fields.accessToken,
                                          refreshToken |-> fields.refreshToken,
                                          expiresAt |-> fields.expiresAt]]}
              /\ UNCHANGED <<tmPhase, tokenReturn>>
     \/ /\ Throw(c)
        /\ UNCHANGED <<issued, tm, lastExchange, exchanged>>
  /\ UNCHANGED <<now, tokenFile, nTokenCalls, exchanges, lastSave>>
  /\ TMFrame

\* The save a call returns from: the object it built from the three fields
\* and whether writeFile wrote it.
SaveOf(c, saved) ==
  [has |-> TRUE, by |-> c.id, op |-> c.op, wrote |-> saved, triple |-> c.triple]

\* saveStoredTokens() rethrowing the failure of mkdir/writeFile, so that the
\* caller rejects.
FinishSaveThrowing(c) ==
  /\ c \in callers
  /\ c.pc = "save"
  /\ callers' = callers \ {c}
  /\ tmPhase' = IF c.op = "initialize" THEN "ready" ELSE tmPhase
  /\ \E saved \in BOOLEAN :
       /\ tokenFile' = IF saved THEN c.triple ELSE tokenFile
       /\ lastSave' = SaveOf(c, saved)
       /\ tokenReturn' =
            IF c.op = "getAccessToken"
              THEN IF ~saved \/ tm.accessToken = 0
                     THEN [NoReturn EXCEPT !.id = c.id, !.threw = TRUE]
                     ELSE [NoReturn EXCEPT !.has = TRUE, !.id = c.id,
                                           !.token = tm.accessToken,
                                           !.expiresAt = tm.expiresAt, !.at = now,
                                           !.refreshed = TRUE,
                                           !.grant = lastExchange]
              ELSE tokenReturn
  /\ UNCHANGED <<now, tm, issued, nTokenCalls, exchanges, lastExchange, exchanged>>
  /\ TMFrame

\* saveStoredTokens() not awaited: the caller returns while writeFile is
\* still pending.
FinishSaveNotAwaited(c) ==
  /\ c \in callers
  /\ c.pc = "save"
  /\ \E saved \in BOOLEAN :
       /\ tokenFile' = tokenFile
       /\ lastSave' = SaveOf(c, saved)
  /\ callers' = callers \ {c}
  /\ tmPhase' = IF c.op = "initialize" THEN "ready" ELSE tmPhase
  /\ tokenReturn' =
       IF c.op = "getAccessToken"
         THEN IF tm.accessToken = 0
                THEN [NoReturn EXCEPT !.id = c.id, !.threw = TRUE]
                ELSE [NoReturn EXCEPT !.has = TRUE, !.id = c.id,
                                      !.token = tm.accessToken,
                                      !.expiresAt = tm.expiresAt, !.at = now,
                                      !.refreshed = TRUE,
                                      !.grant = lastExchange]
         ELSE tokenReturn
  /\ UNCHANGED <<now, tm, issued, nTokenCalls, exchanges, lastExchange, exchanged>>
  /\ TMFrame

\* saveStoredTokens() after its awaits (a failure is logged, not thrown), the
\* return of refreshTokens() and the rest of the caller.
FinishSave(c) ==
  /\ c \in callers
  /\ c.pc = "save"
  /\ \E saved \in BOOLEAN :
       /\ tokenFile' = IF saved THEN c.triple ELSE tokenFile
       /\ lastSave' = SaveOf(c, saved)
  /\ callers' = callers \ {c}
  /\ tmPhase' = IF c.op = "initialize" THEN "ready" ELSE tmPhase
  /\ tokenReturn' =
       IF c.op = "getAccessToken"
         THEN IF tm.accessToken = 0
                THEN [NoReturn EXCEPT !.id = c.id, !.threw = TRUE]
                ELSE [NoReturn EXCEPT !.has = TRUE, !.id = c.id,
                                      !.token = tm.accessToken,
                                      !.expiresAt = tm.expiresAt, !.at = now,
                                      !.refreshed = TRUE,
                                      !.grant = lastExchange]
         ELSE tokenReturn
  /\ UNCHANGED <<now, tm, issued, nTokenCalls, exchanges, lastExchange, exchanged>>
  /\ TMFrame

TickTM ==
  /\ ticks < MaxTokenTicks
  /\ ticks' = ticks + 1
  /\ \E d \in TimeSteps : now' = now + d
  /\ UNCHANGED <<accVars, platVars, tmVars, discVars>>

\* ------------------------------------------------------------------ clock
Tick ==
  /\ ticks < MaxTicks
  /\ ticks' = ticks + 1
  /\ \E d \in TimeSteps : now' = now + d
  /\ UNCHANGED <<accVars, platVars, tmVars, discVars>>

\* ------------------------------------------------------- specifications
\* The accessory right after its constructor, with the device in any state.
Init ==
  /\ now = 0
  /\ ticks = 0
  /\ nOps = 0
  /\ remote \in RemoteStates
  /\ acStates = InitialAcStates
  /\ characteristicCaches = [k \in Keys |-> NoEntry(k)]
  /\ statusCache = NoStatus
  /\ capturedAt = NeverCaptured
  /\ calls = {}
  /\ last = NoCall
  /\ statusRequests = <<>>
  /\ written = NoneWritten
  /\ statusWritten = NoneWritten
  /\ observed = InitialAcStates
  /\ cache = EmptyCache
  /\ sensorRequests = <<>>
  /\ tokenFile = NoFile
  /\ TMConstructed
  /\ PlatformDiscovered

\* The platform from its construction: discovery at didFinishLaunching, and
\* the platform's methods called before, during and after it.
MaxDiscoveryOps == 2

InitDiscovery ==
  /\ now = 0
  /\ ticks = 0
  /\ nOps = 0
  /\ remote = [switch |-> "on", mode |-> "cool", setpoint |-> 28,
               temperature |-> 27, humidity |-> 60]
  /\ acStates = InitialAcStates
  /\ characteristicCaches = [k \in Keys |-> NoEntry(k)]
  /\ statusCache = NoStatus
  /\ capturedAt = NeverCaptured
  /\ calls = {}
  /\ last = NoCall
  /\ statusRequests = <<>>
  /\ written = NoneWritten
  /\ statusWritten = NoneWritten
  /\ observed = InitialAcStates
  /\ cache = EmptyCache
  /\ sensorRequests = <<>>
  /\ tokenFile = NoFile
  /\ TMConstructed
  /\ PlatformConstructed

DiscoveryLimit == [ops |-> MaxDiscoveryOps, inflight |-> 1]

NextDiscovery ==
  \/ StartDiscoverDevices
  \/ \E reply \in DeviceReplies : FinishDiscoverDevices(reply)
  \/ \E type \in Sensors : StartSensorRead(type, DiscoveryLimit)
  \/ \E c \in calls : FinishSensorRead(c)
  \/ \E temperature \in TempInputs :
       StartPlatformCommand(SetpointCmd(temperature), DiscoveryLimit)
  \/ \E mode \in {"cool", "dry"} : StartPlatformCommand(ModeCmd(mode), DiscoveryLimit)
  \/ StartPlatformCommand(OffCmd, DiscoveryLimit)
  \/ \E c \in calls : FinishPlatformCommand(c)

SpecDiscovery == InitDiscovery /\ [][NextDiscovery]_vars

Handlers(limit) ==
  \/ \E key \in Keys : StartGet(key, limit)
  \/ \E isActive \in BOOLEAN : StartSetActive(isActive, limit)
  \/ \E homeKitMode \in 0..3 : StartSetTargetHeatingCoolingState(homeKitMode, limit)
  \/ \E temperature \in TempInputs : StartSetTargetTemperature(temperature, limit)
  \/ \E temperature \in TempInputs : StartSetCoolingThresholdTemperature(temperature, limit)
  \/ \E temperature \in TempInputs : StartSetHeatingThresholdTemperature(temperature, limit)

Resume ==
  \/ \E c \in calls : ReplyStatus(c)
  \/ \E c \in calls : FinishGet(c)
  \/ \E c \in calls : FinishSetActive(c)
  \/ \E c \in calls : FinishModeCommand(c)
  \/ \E c \in calls : FinishAutoSetpoint(c)
  \/ \E c \in calls : FinishSetTargetTemperature(c)
  \/ \E c \in calls : FinishSetThreshold(c)

\* Handlers run one at a time: the next is invoked when the last has returned.
Next == Handlers([ops |-> MaxOps, inflight |-> 1]) \/ Resume \/ Tick
Spec == Init /\ [][Next]_vars

\* Handlers overlap at their awaits, as when the host reads several
\* characteristics in one request.
NextOverlap ==
  Handlers([ops |-> MaxOverlapOps, inflight |-> MaxInflight]) \/ Resume \/ Tick
SpecOverlap == Init /\ [][NextOverlap]_vars

\* The platform's own interface, as an accessory calls it: the two sensor
\* reads and the three commands, one call at a time.
PlatformCalls(limit) ==
  \/ \E type \in Sensors : StartSensorRead(type, limit)
  \/ \E temperature \in TempInputs :
       StartPlatformCommand(SetpointCmd(temperature), limit)
  \/ \E mode \in {"cool", "dry"} : StartPlatformCommand(ModeCmd(mode), limit)
  \/ StartPlatformCommand(OffCmd, limit)

ResumePlatform ==
  \/ \E c \in calls : FinishSensorRead(c)
  \/ \E c \in calls : FinishPlatformCommand(c)

NextPlatform ==
  PlatformCalls([ops |-> MaxPlatformOps, inflight |-> 1]) \/ ResumePlatform \/ Tick
SpecPlatform == Init /\ [][NextPlatform]_vars

\* Writes through both layers, one call at a time: the accessory's mode, power
\* and setpoint handlers, whose commands go through the platform and its
\* sensor cache, between the reads of both layers.
MaxWriteOps == 2

WriteLimit == [ops |-> MaxWriteOps, inflight |-> 1]

NextWrites ==
  \/ \E key \in Keys : StartGet(key, WriteLimit)
  \/ \E type \in Sensors : StartSensorRead(type, WriteLimit)
  \/ \E isActive \in BOOLEAN : StartSetActive(isActive, WriteLimit)
  \/ \E homeKitMode \in 0..3 : StartSetTargetHeatingCoolingState(homeKitMode, WriteLimit)
  \/ \E temperature \in TempInputs : StartSetTargetTemperature(temperature, WriteLimit)
  \/ \E c \in calls : ReplyStatus(c)
  \/ \E c \in calls : FinishGet(c)
  \/ \E c \in calls : FinishSensorRead(c)
  \/ \E c \in calls : FinishSetActive(c)
  \/ \E c \in calls : FinishModeCommand(c)
  \/ \E c \in calls : FinishAutoSetpoint(c)
  \/ \E c \in calls : FinishSetTargetTemperature(c)
  \/ Tick
SpecWrites == Init /\ [][NextWrites]_vars

\* The threshold writes over the whole range the host may send, and one value
\* beyond each end, after the target mode was written; one call at a time.
MaxThresholdOps == 2

ThresholdInputs == (MIN_TEMP - 1)..(MAX_TEMP + 1)

ThresholdLimit == [ops |-> MaxThresholdOps, inflight |-> 1]

NextThresholds ==
  \/ \E homeKitMode \in 0..3 :
       StartSetTargetHeatingCoolingState(homeKitMode, ThresholdLimit)
  \/ \E temperature \in ThresholdInputs :
       StartSetCoolingThresholdTemperature(temperature, ThresholdLimit)
  \/ \E temperature \in ThresholdInputs :
       StartSetHeatingThresholdTemperature(temperature, ThresholdLimit)
  \/ \E c \in calls : FinishModeCommand(c)
  \/ \E c \in calls : FinishAutoSetpoint(c)
  \/ \E c \in calls : FinishSetThreshold(c)
  \/ Tick
SpecThresholds == Init /\ [][NextThresholds]_vars

\* The mode translation in both directions: target-mode writes, with 4
\* standing for any value outside HOMEKIT_MODE_MAPPING, and the reads of the
\* two mode characteristics; one call at a time.
MaxModeOps == 2

ModeInputs == 0..4

ModeLimit == [ops |-> MaxModeOps, inflight |-> 1]

NextModes ==
  \/ \E homeKitMode \in ModeInputs :
       StartSetTargetHeatingCoolingState(homeKitMode, ModeLimit)
  \/ \E key \in {"TargetHeatingCoolingState", "CurrentHeatingCoolingState"} :
       StartGet(key, ModeLimit)
  \/ \E c \in calls : FinishModeCommand(c)
  \/ \E c \in calls : FinishAutoSetpoint(c)
  \/ \E c \in calls : ReplyStatus(c)
  \/ \E c \in calls : FinishGet(c)
  \/ Tick
SpecModes == Init /\ [][NextModes]_vars

\* Reads through both layers, one at a time: the accessory's get handlers and
\* the platform's sensor reads.
MaxReadOps == 2

NextReads ==
  \/ \E key \in Keys : StartGet(key, [ops |-> MaxReadOps, inflight |-> 1])
  \/ \E type \in Sensors :
       StartSensorRead(type, [ops |-> MaxReadOps, inflight |-> 1])
  \/ \E c \in calls : ReplyStatus(c)
  \/ \E c \in calls : FinishGet(c)
  \/ \E c \in calls : FinishSensorRead(c)
  \/ Tick
SpecReads == Init /\ [][NextReads]_vars

\* Both cache layers with what fills and what clears them: the platform's
\* sensor reads and commands, and the accessory's reads of the two sensor
\* characteristics, one call at a time.
MaxCacheOps == 3

CacheLimit == [ops |-> MaxCacheOps, inflight |-> 1]

SensorKeys == {"CurrentTemperature", "CurrentHumidity"}

NextCaches ==
  \/ PlatformCalls(CacheLimit)
  \/ \E key \in SensorKeys : StartGet(key, CacheLimit)
  \/ \E c \in calls : FinishSensorRead(c)
  \/ \E c \in calls : FinishPlatformCommand(c)
  \/ \E c \in calls : ReplyStatus(c)
  \/ \E c \in calls : FinishGet(c)
  \/ Tick
SpecCaches == Init /\ [][NextCaches]_vars

\* Reads as the caches age: the clock moves to just inside the lifetime of
\* the status snapshot and of a per-characteristic entry.
MaxAgingOps == 3
MaxAgingTicks == 2

AgingSteps == {CACHE_DURATION - 1000, CHARACTERISTIC_CACHE_DURATION - 1000}

TickAging ==
  /\ ticks < MaxAgingTicks
  /\ ticks' = ticks + 1
  /\ \E d \in AgingSteps : now' = now + d
  /\ UNCHANGED <<accVars, platVars, tmVars, discVars>>

AgingLimit == [ops |-> MaxAgingOps, inflight |-> 1]

NextAging ==
  \/ \E key \in Keys : StartGet(key, AgingLimit)
  \/ \E c \in calls : ReplyStatus(c)
  \/ \E c \in calls : FinishGet(c)
  \/ TickAging
SpecAging == Init /\ [][NextAging]_vars

\* The token manager right after its constructor; tokens.json is missing or
\* left by an earlier run. The accessory stays as constructed.
InitTM ==
  /\ now = 0
  /\ ticks = 0
  /\ nOps = 0
  /\ remote = [switch |-> "off", mode |-> "cool", setpoint |-> 28,
               temperature |-> 27, humidity |-> 60]
  /\ acStates = InitialAcStates
  /\ characteristicCaches = [k \in Keys |-> NoEntry(k)]
  /\ statusCache = NoStatus
  /\ capturedAt = NeverCaptured
  /\ calls = {}
  /\ last = NoCall
  /\ statusRequests = <<>>
  /\ written = NoneWritten
  /\ statusWritten = NoneWritten
  /\ observed = InitialAcStates
  /\ cache = EmptyCache
  /\ sensorRequests = <<>>
  /\ tokenFile \in {NoFile} \cup
       {[has |-> TRUE, accessToken |-> STORED_TOKEN, refreshToken |-> STORED_TOKEN,
         expiresAt |-> e] : e \in StoredExpiries}
  /\ TMConstructed
  /\ PlatformDiscovered

ResumeTM ==
  \/ \E c \in callers : FinishLoad(c)
  \/ \E c \in callers : FinishExchange(c)
  \/ \E c \in callers : FinishSave(c)

NextTM == StartInitialize \/ StartGetAccessToken \/ ResumeTM \/ TickTM
SpecTM == InitTM /\ [][NextTM]_vars

\* ======================================================================
\* Properties
\* ======================================================================

\* No handler is suspended: the state the host sees between calls.
Quiescent == calls = {}

\* The last handler to return was a set handler that sent a command the
\* remote did not complete.
LastWriteFailed ==
  /\ last.kind = "set"
  /\ \E i \in 1..Len(last.results) : ~last.results[i]

\* C1. A failed write never mutates cached or local state: when a set handler
\* has returned and a remote command it issued was rejected or failed,
\* acStates and every characteristicCaches entry equal their values on entry.
C1_FailedWriteLeavesStateUntouched ==
  (Quiescent /\ LastWriteFailed) =>
    (acStates = last.pre.ac /\ characteristicCaches = last.pre.cc)

\* C2. Concurrent getAccessToken calls never have two refresh exchanges with
\* the token endpoint in flight at once: the second caller waits for the
\* first caller's exchange.
C2_OneExchangeInFlight ==
  \A c1, c2 \in callers :
    (c1.pc = "exchange" /\ c2.pc = "exchange") => c1 = c2

\* C3 as stated. Whenever getAccessToken returns a credential, the time of
\* the return is strictly earlier than the credential's expiry minus the
\* 5-minute margin, whatever expires_in the endpoint declared.
C3_ReturnedTokenOutsideMargin ==
  tokenReturn.has => tokenReturn.at < tokenReturn.expiresAt - REFRESH_MARGIN

\* C3 as amended. A credential that getAccessToken returns without refreshing
\* is outside the margin; one returned after a refresh is outside the margin
\* unless the lifetime the endpoint declared for it does not exceed the margin
\* plus the time elapsed since the exchange.
C3_ReturnedTokenOutsideMarginUnlessShortLived ==
  tokenReturn.has =>
    \/ tokenReturn.at < tokenReturn.expiresAt - REFRESH_MARGIN
    \/ /\ tokenReturn.refreshed
       /\ tokenReturn.grant.lifetime * 1000 <=
            REFRESH_MARGIN + (tokenReturn.at - tokenReturn.grant.at)

\* C3 witness: a later call returns the held credential without refreshing,
\* after time has passed since it was obtained.
C3_Witness_ReturnedWithoutRefresh ==
  /\ tokenReturn.has
  /\ ~tokenReturn.refreshed
  /\ tokenReturn.token > STORED_TOKEN
  /\ tokenReturn.at > tokenReturn.grant.at

\* C4. When the status a mode read decodes reports switch = off, the read
\* returns off (0), for the current mode and for the target mode.
C4_SwitchOffReadsOff ==
  ( /\ last.kind = "get"
    /\ last.key \in {"CurrentHeatingCoolingState", "TargetHeatingCoolingState"}
    /\ last.src \in {"remote", "snapshot"}
    /\ last.data.switch = "off" )
  => last.numValue = 0

\* C5. No read returns a value decoded from a status that was read from the
\* remote before a command COMPLETED on a device field the value depends on.
C5_NoReadFromStatusOlderThanWrite ==
  ( /\ last.kind = "get"
    /\ last.src \in {"remote", "snapshot"} )
  => FieldsOf(last.key) \cap last.staleFields = {}

ThresholdSetters ==
  {"setTargetTemperature", "setCoolingThresholdTemperature",
   "setHeatingThresholdTemperature"}

\* C6. After a temperature set handler has returned without a failed command
\* and target-mode is not auto, the heating threshold, the cooling threshold
\* and the target temperature in acStates are equal.
C6_ThresholdsEqualOutsideAuto ==
  ( /\ Quiescent
    /\ last.kind = "set"
    /\ last.op \in ThresholdSetters
    /\ ~LastWriteFailed
    /\ acStates.TargetHeatingCoolingState # 3 )
  => /\ acStates.HeatingThresholdTemperature = acStates.TargetTemperature
     /\ acStates.CoolingThresholdTemperature = acStates.TargetTemperature

\* C7. Between calls, whenever acStates holds target-mode auto, the cooling
\* threshold equals min(heating threshold + 4, 30).
C7_AutoCoolingIsHeatingPlusFour ==
  (Quiescent /\ acStates.TargetHeatingCoolingState = 3) =>
    acStates.CoolingThresholdTemperature =
      Min(acStates.HeatingThresholdTemperature + 4, 30)

SentCommands ==
  UNION ({{c.cmds[i] : i \in 1..Len(c.cmds)} : c \in calls}
         \cup {{last.cmds[i] : i \in 1..Len(last.cmds)}})

\* C8. Every setCoolingSetpoint command sent to the remote carries a
\* temperature in 18..30.
C8_SentSetpointInRange ==
  \A cmd \in SentCommands :
    cmd.command = "setCoolingSetpoint" => cmd.temp \in 18..30

\* C9. CurrentHeatingCoolingState in acStates, its cache entry and every
\* value getCurrentHeatingCoolingState returns are in {0, 1, 2}.
C9_CurrentModeThreeValued ==
  /\ acStates.CurrentHeatingCoolingState \in {0, 1, 2}
  /\ characteristicCaches["CurrentHeatingCoolingState"].has =>
       characteristicCaches["CurrentHeatingCoolingState"].value \in {0, 1, 2}
  /\ (last.kind = "get" /\ last.key = "CurrentHeatingCoolingState") =>
       last.numValue \in {0, 1, 2}

\* C10. Any two unified status requests are at least one coarse-tier TTL
\* (5 minutes) apart.
C10_OneStatusRequestPerWindow ==
  \A i, j \in 1..Len(statusRequests) :
    i < j => statusRequests[j] - statusRequests[i] >= CACHE_DURATION

\* A step that invokes a read of characteristic (or sensor) k right after a
\* read of k has returned.
SameReadAgain(k) ==
  /\ last.kind \in {"get", "sensor"}
  /\ last.key = k
  /\ calls = {}
  /\ nOps' = nOps + 1
  /\ \/ last'.kind = last.kind /\ last'.key = k
     \/ \E c \in calls' : c.kind = last.kind /\ c.op = k

\* The step issues a remote read.
IssuesRemoteRead ==
  statusRequests' # statusRequests \/ sensorRequests' # sensorRequests

C12_FallbackReturnsLastObserved ==
  (last.kind = "get" /\ last.src = "fallback")
    => /\ last.ok
       /\ (IF last.key = "Active" THEN last.boolValue ELSE last.numValue)
            = observed[last.key]


\* A set handler `op` returns success in this step.
Completes(op) ==
  /\ calls # {} /\ calls' = {}
  /\ last'.kind = "set" /\ last'.op = op /\ last'.ok

\* The fine-tier entry of `k` no longer holds what it held before the write:
\* it is empty, or holds the value the write left in acStates, stamped now.
Replaced(k) ==
  \/ ~characteristicCaches'[k].has
  \/ characteristicCaches'[k] = Entry(acStates'[k], now)

OtherFineEntriesUnchanged(keys) ==
  \A k \in Keys \ keys : characteristicCaches'[k] = characteristicCaches[k]

\* C13 (as stated): a successful write of the target temperature invalidates
\* the entries of target temperature, heating threshold and cooling threshold
\* and leaves every other cache entry unchanged, the cached current
\* temperature and humidity included.
C13_SetpointWriteLeavesOtherEntries ==
  [][Completes("setTargetTemperature") =>
       /\ \A k \in TemperatureKeys : Replaced(k)
       /\ OtherFineEntriesUnchanged(TemperatureKeys)
       /\ cache' = cache]_vars

\* C13 (amended): a successful write of the target temperature rewrites the
\* three fine-tier entries of target temperature, heating threshold and cooling
\* threshold with the written values stamped now, leaves the other fine-tier
\* entries and the status snapshot unchanged, and in the platform's sensor
\* cache clears the current-temperature entry and leaves humidity unchanged.
C13_SetpointWriteClearsSensorTemperature ==
  [][Completes("setTargetTemperature") =>
       /\ \A k \in TemperatureKeys :
            characteristicCaches'[k] = Entry(acStates'[k], now)
       /\ acStates'.TargetTemperature = last'.temp
       /\ OtherFineEntriesUnchanged(TemperatureKeys)
       /\ statusCache' = statusCache
       /\ ~cache'["temperature"].has
       /\ cache'["humidity"] = cache["humidity"]]_vars

\* C13 witness: the target-temperature write succeeded while the platform
\* held a cached current temperature, which is now gone.
C13_Witness_SensorTemperatureCleared ==
  /\ last.kind = "set" /\ last.op = "setTargetTemperature" /\ last.ok
  /\ last.pre.sensors["temperature"].has
  /\ ~cache["temperature"].has


\* C14: after a successful mode write the next read of the current
\* temperature or of the humidity is not served from an entry cached before
\* the write (the write creates no such entry, so neither the 30 s entry nor
\* the status snapshot may serve it).
C14_ReadAfterModeWriteIsFetched ==
  [][(/\ last.kind = "set" /\ last.op = "setTargetHeatingCoolingState" /\ last.ok
      /\ calls = {}
      /\ nOps' = nOps + 1
      /\ last'.kind = "get"
      /\ last'.key \in {"CurrentTemperature", "CurrentHumidity"})
       => last'.src \notin {"cached", "snapshot"}]_vars


\* The entries a successful switch-off rewrites with the values it stored.
SwitchOffKeys == {"Active", "CurrentHeatingCoolingState", "TargetHeatingCoolingState"}

\* C15: a successful write of active = off invalidates the entries of active,
\* current mode, target mode, current temperature and humidity: the next read
\* of any of the five is not served from data cached before the write, that
\* is not from the status snapshot, and from a 30 s entry only when the write
\* itself stored it.
C15_SwitchOffInvalidatesFiveEntries ==
  [][(/\ last.kind = "set" /\ last.op = "setActive" /\ ~last.flag /\ last.ok
      /\ calls = {}
      /\ nOps' = nOps + 1
      /\ last'.kind = "get"
      /\ last'.key \in SwitchOffKeys \cup {"CurrentTemperature", "CurrentHumidity"})
       => /\ last'.src # "snapshot"
          /\ last'.src = "cached" => last'.key \in SwitchOffKeys]_vars


\* The auto writes under way or just returned.
AutoWrites ==
  {c \in calls \cup {last} :
     c.kind = "set" /\ c.op = "setTargetHeatingCoolingState" /\ c.mode = 3}

\* C16: setting the target mode to auto sends the mode command first; the
\* setpoint command is sent only once the mode command has completed, never
\* after it failed, and carries the current heating threshold; when the
\* handler returns success the cooling threshold is min(heating + 4, 30).
C16_AutoIsModeThenSetpoint ==
  \A c \in AutoWrites :
    /\ Len(c.cmds) \in 1..2
    /\ c.cmds[1] = ModeCmd("aIComfort")
    /\ Len(c.cmds) = 2 =>
         /\ Len(c.results) >= 1 /\ c.results[1]
         /\ c.cmds[2] = SetpointCmd(acStates.HeatingThresholdTemperature)
    /\ (Len(c.results) >= 1 /\ ~c.results[1]) => Len(c.cmds) = 1
    /\ c = last =>
         /\ last.ok <=> Len(last.cmds) = 2
         /\ last.ok =>
              acStates.CoolingThresholdTemperature =
                Min(acStates.HeatingThresholdTemperature + 4, 30)

\* C16 witness: the auto write has returned after both commands, with a
\* heating threshold high enough for the cooling threshold to stop at 30.
C16_Witness_AutoWrittenAtCeiling ==
  /\ last \in AutoWrites /\ last.ok
  /\ Len(last.cmds) = 2 /\ Len(last.results) = 2
  /\ acStates.HeatingThresholdTemperature > 26
  /\ acStates.CoolingThresholdTemperature = 30


\* The target-mode writes under way or just returned.
ModeWrites ==
  {c \in calls \cup {last} :
     c.kind = "set" /\ c.op = "setTargetHeatingCoolingState"}

\* C17: setting the target mode to off sends one switch-off command and no
\* mode command; setting it to heat or cool sends exactly one mode command
\* (dry for heat, cool for cool) and no switch or setpoint command.
C17_OffSwitchesHeatCoolSendOneMode ==
  \A c \in ModeWrites :
    /\ c.mode = 0 => c.cmds = <<OffCmd>>
    /\ c.mode = 1 => c.cmds = <<ModeCmd("dry")>>
    /\ c.mode = 2 => c.cmds = <<ModeCmd("cool")>>
    /\ (c = last /\ c.mode \in 0..2) => Len(last.results) = 1

\* C17 witness: a write of heat has returned success after its single mode
\* command, which the remote applied.
C17_Witness_HeatSentDry ==
  /\ last \in ModeWrites /\ last.mode = 1 /\ last.ok
  /\ last.cmds = <<ModeCmd("dry")>>
  /\ remote.mode = "dry"
  /\ written = [switch |-> 0, mode |-> 1, setpoint |-> 0]


\* A refresh exchange is sent in this step.
ExchangeSent == Len(exchanges') = Len(exchanges) + 1

\* getAccessToken() is called; initialize() is called; initialize() resumes
\* after reading tokens.json.
GetAccessTokenCalled == nTokenCalls' = nTokenCalls + 1
InitializeCalled == tmPhase = "new" /\ tmPhase' # "new"
StoredTokensRead == \E c \in callers : c.pc = "load" /\ c \notin callers'

\* The exchanges sent by the call `id`.
ExchangesBy(id) == {i \in DOMAIN exchanges : exchanges[i].by = id}

\* C18: initialize and getAccessToken send a refresh exchange exactly when no
\* usable credential is held or the time is within 5 minutes of, or past, the
\* expiry: getAccessToken decides on the held credential, initialize on the
\* stored one once it is read, and a missing tokens.json at startup makes
\* initialize send exactly one exchange, with the configured refresh token.
C18_RefreshExactlyWhenNeeded ==
  [][/\ GetAccessTokenCalled =>
          (ExchangeSent <=>
             (tm.accessToken = 0 \/ now >= tm.expiresAt - 5 * 60 * 1000))
     /\ InitializeCalled =>
          IF tokenFile.has
            THEN ~ExchangeSent
            ELSE exchanges' = <<[sent |-> INITIAL_REFRESH_TOKEN, by |-> 0]>>
     /\ StoredTokensRead =>
          (ExchangeSent <=>
             (tm'.accessToken = 0 \/ now >= tm'.expiresAt - 5 * 60 * 1000))
     /\ ExchangeSent =>
          (GetAccessTokenCalled \/ InitializeCalled \/ StoredTokensRead)
     /\ Len(exchanges') \in {Len(exchanges), Len(exchanges) + 1}
     /\ Cardinality(ExchangesBy(0)) <= 1]_vars

\* C18 witness: initialize read a stored credential with 4 minutes left and
\* sent a refresh carrying the stored refresh token.
C18_Witness_FourMinuteCredentialRefreshed ==
  /\ now = 0
  /\ tm.expiresAt = 240000
  /\ exchanges = <<[sent |-> STORED_TOKEN, by |-> 0]>>


\* The exchange of the call `c` fails in this step: the call ends without
\* reaching saveStoredTokens().
ExchangeFails(c) ==
  /\ c \in callers /\ c.pc = "exchange"
  /\ \A d \in callers' : d.id # c.id

\* What every failed exchange leaves behind: the call rejects, it has sent
\* one exchange and sends no other, and nothing is assigned or saved.
FailsCleanly(c) ==
  /\ c.op = "getAccessToken" =>
       tokenReturn' = [NoReturn EXCEPT !.id = c.id, !.threw = TRUE]
  /\ exchanges' = exchanges
  /\ Cardinality(ExchangesBy(c.id)) = 1
  /\ tokenFile' = tokenFile

\* C19 (as stated): when the refresh exchange fails the calling initialize
\* or getAccessToken fails, attempts no second exchange, and leaves the
\* in-memory triple exactly as it was before the call.
C19_FailedRefreshLeavesTripleAsBeforeCall ==
  [][\A c \in callers :
       ExchangeFails(c) => (FailsCleanly(c) /\ tm' = c.entry)]_vars

\* C19 (amended): when the refresh exchange fails the call fails, attempts no
\* second exchange, and the failure assigns nothing: the triple stays what it
\* was when the failure arrived.  For getAccessToken that is the triple of
\* before the call unless another call's refresh completed meanwhile; for
\* initialize it is the triple of before the call or the one read from
\* tokens.json.
C19_FailedRefreshAssignsNothing ==
  [][\A c \in callers :
       ExchangeFails(c) =>
         /\ FailsCleanly(c)
         /\ tm' = tm
         /\ (c.op = "getAccessToken" /\ tm.refreshToken = c.sent) => tm' = c.entry
         /\ c.op = "initialize" =>
              \/ tm' = c.entry
              \/ /\ tokenFile.has
                 /\ tm' = [accessToken |-> tokenFile.accessToken,
                           refreshToken |-> tokenFile.refreshToken,
                           expiresAt |-> tokenFile.expiresAt]]_vars

\* C19 witness: getAccessToken found the held credential inside the margin,
\* its exchange failed, and the credential obtained earlier is still held.
C19_Witness_FailedRefreshKeepsCredential ==
  /\ tokenReturn.threw
  /\ tm.accessToken > STORED_TOKEN
  /\ Len(exchanges) = 2
  /\ callers = {}


\* getAccessToken's write of tokens.json fails in this step: the call `c`
\* ends and the file does not hold the triple it tried to write.
SaveFails(c) ==
  /\ c \in callers /\ c.pc = "save" /\ c.op = "getAccessToken"
  /\ c \notin callers'
  /\ tokenFile' # c.triple

\* C20: when the write of the credential file fails after a successful
\* refresh, getAccessToken still returns the new access credential, and while
\* the file does not hold the in-memory triple a later getAccessToken with
\* the held credential more than 5 minutes from expiry returns it without a
\* refresh.
C20_SaveFailureKeepsMemoryTriple ==
  [][/\ \A c \in callers :
          SaveFails(c) =>
            /\ tokenReturn'.has /\ tokenReturn'.id = c.id
            /\ tokenReturn'.token = tm.accessToken
            /\ tokenReturn'.token >= c.triple.accessToken
            /\ tm' = tm
     /\ ( /\ GetAccessTokenCalled
          /\ tokenFile.accessToken # tm.accessToken
          /\ tm.accessToken # 0
          /\ now < tm.expiresAt - 5 * 60 * 1000 )
          => /\ ~ExchangeSent
             /\ tokenReturn'.has /\ tokenReturn'.token = tm.accessToken
             /\ tm' = tm]_vars

\* C20 witness: the first getAccessToken refreshed and its write failed, and
\* the second returned the same credential from memory without a refresh.
C20_Witness_LaterCallUsesMemory ==
  /\ callers = {}
  /\ Len(exchanges) = 2 /\ exchanges[2].by = 1
  /\ tokenFile.accessToken < tm.accessToken
  /\ tokenReturn.has /\ tokenReturn.id = 2 /\ ~tokenReturn.refreshed
  /\ tokenReturn.token = tm.accessToken


\* C21: the in-memory triple is never partially updated. In every state, with
\* or without a refresh in flight, access token, refresh token and expiry are
\* the three fields of one persisted record or of one token response; before
\* the first load or response they are as constructed.
C21_TripleFromOneSource ==
  \/ tm = [accessToken |-> 0, refreshToken |-> INITIAL_REFRESH_TOKEN, expiresAt |-> 0]
  \/ /\ tokenFile.has
     /\ tm = [accessToken |-> tokenFile.accessToken,
              refreshToken |-> tokenFile.refreshToken,
              expiresAt |-> tokenFile.expiresAt]
  \/ /\ issued > STORED_TOKEN
     /\ tm = [accessToken |-> issued, refreshToken |-> issued,
              expiresAt |-> lastExchange.at + lastExchange.lifetime * 1000]

\* C21 witness: a call is suspended in a refresh exchange while the triple of
\* an earlier response is held and another call is still saving it.
C21_Witness_TripleSeenDuringRefresh ==
  /\ \E c \in callers : c.pc = "exchange"
  /\ \E c \in callers : c.pc = "save"
  /\ tm.accessToken > STORED_TOKEN
  /\ tokenFile.accessToken # tm.accessToken


\* Math.max(18, Math.min(30, t)): the value a threshold write stores.
Clamped(t) == Max(18, Min(30, t))

C23_AutoTargetIsHeatingThreshold ==
  (Quiescent /\ acStates.TargetHeatingCoolingState = 3) =>
    /\ acStates.TargetTemperature = acStates.HeatingThresholdTemperature
    /\ characteristicCaches["TargetTemperature"].has =>
         characteristicCaches["TargetTemperature"].value =
           acStates.HeatingThresholdTemperature
    /\ \A i \in 1..Len(last.cmds) :
         last.cmds[i].command = "setCoolingSetpoint" =>
           last.cmds[i].temp = acStates.HeatingThresholdTemperature


\* C24: with the switch on, a read of the target mode decoded from a status
\* returns off -> 0, dry -> 1, cool -> 2, aIComfort -> 3, fan -> 0 and 0 for
\* any other mode string, and stores that value.
C24_TargetModeDecodesByTable ==
  ( /\ last.kind = "get" /\ last.key = "TargetHeatingCoolingState"
    /\ last.src \in {"remote", "snapshot"}
    /\ last.data.switch = "on" )
  => /\ last.numValue = (CASE last.data.mode = "off" -> 0
                           [] last.data.mode = "dry" -> 1
                           [] last.data.mode = "cool" -> 2
                           [] last.data.mode = "aIComfort" -> 3
                           [] last.data.mode = "fan" -> 0
                           [] OTHER -> 0)
     /\ acStates.TargetHeatingCoolingState = last.numValue

\* C24 witness: with the switch on the remote reported fan and the target
\* mode read returned off.
C24_Witness_FanDecodedAsOff ==
  /\ last.kind = "get" /\ last.key = "TargetHeatingCoolingState"
  /\ last.src = "remote"
  /\ last.data.switch = "on" /\ last.data.mode = "fan"
  /\ last.numValue = 0


\* C25: the target mode encodes 0 as off, 1 as dry, 2 as cool, 3 as
\* aIComfort and any other value as off, and every target-mode write other
\* than off sends its mode command with that encoding.
C25_TargetModeEncodesByTable ==
  \A c \in ModeWrites :
    LET encoded == CASE c.mode = 0 -> "off"
                     [] c.mode = 1 -> "dry"
                     [] c.mode = 2 -> "cool"
                     [] c.mode = 3 -> "aIComfort"
                     [] OTHER -> "off"
    IN  /\ homeKitModeToSamsung(c.mode) = encoded
        /\ c.mode # 0 => c.cmds[1] = ModeCmd(encoded)

\* C25 witness: a write of a value outside the table has returned after a
\* mode command carrying off completed.
C25_Witness_UnrecognizedEncodedAsOff ==
  /\ last \in ModeWrites /\ last.mode = 4 /\ last.ok
  /\ last.cmds = <<ModeCmd("off")>>
  /\ remote.mode = "off"


\* A read of the target mode returns in this step with a value decoded from
\* the status the remote just sent.
TargetModeFetched ==
  /\ \E c \in calls : c.kind = "get" /\ c.op = "TargetHeatingCoolingState"
  /\ last'.kind = "get" /\ last'.src = "remote"

\* C26: for every target mode m in 0..3, decoding the encoding of m gives m,
\* and fan is the encoding of none; so a target mode of heat, cool or auto
\* that a completed mode command wrote to the remote is read back unchanged
\* when the status is fetched again.
C26_ModeRoundTrip ==
  [][/\ \A m \in 0..3 :
          /\ samsungModeToHomeKit(homeKitModeToSamsung(m)) = m
          /\ homeKitModeToSamsung(m) # "fan"
     /\ ( /\ TargetModeFetched
          /\ written.mode > 0
          /\ acStates.TargetHeatingCoolingState \in 1..3
          /\ remote.mode = homeKitModeToSamsung(acStates.TargetHeatingCoolingState) )
          => last'.numValue = acStates.TargetHeatingCoolingState]_vars

\* C26 witness: a mode command wrote auto to the remote, and
\* the next fetch of the target mode returned auto.
C26_Witness_AutoReadBack ==
  /\ last.kind = "get" /\ last.key = "TargetHeatingCoolingState"
  /\ last.src = "remote" /\ last.numValue = 3
  /\ written.mode = 1
  /\ nOps = 2


\* A step in which platform.setTargetTemperature, setACMode or turnOffAC
\* returns: at once, or after its request.
CommandReturns ==
  /\ last'.kind = "command"
  /\ \/ nOps' = nOps + 1
     \/ \E c \in calls : c.kind = "command" /\ calls' = calls \ {c}

\* C27: a remote command returns true exactly when the status of its result
\* is COMPLETED; with any other status, with a thrown request and with no
\* device id (when no request is sent) it returns false; and the sensor cache
\* is changed by a returning command only when it returns true, then by the
\* invalidation that command makes.
C27_CommandSucceedsIffCompleted ==
  [][CommandReturns =>
       /\ last'.ok <=> last'.status = "COMPLETED"
       /\ last'.status \in {"ACCEPTED", "FAILED", "error", "none"} => ~last'.ok
       /\ deviceId = NO_DEVICE => last'.status = "none" /\ ~last'.ok
       /\ ~last'.ok => cache' = cache
       /\ last'.ok => cache' = InvalidateCache(cache, InvalidatedBy(last'.cmds[1]))]_vars

\* C27 witness: a command answered COMPLETED has returned true and cleared a
\* sensor reading that had been fetched.
C27_Witness_CompletedCommandClearedReading ==
  /\ last.kind = "command"
  /\ last.status = "COMPLETED"
  /\ last.ok
  /\ last.pre.sensors["temperature"].has
  /\ ~cache["temperature"].has



\* The device list holds no device whose name or label is the sentinel, or
\* the request for it failed.
NoSentinelListed(reply) ==
  \/ reply.error
  \/ \A i \in DOMAIN reply.items :
       reply.items[i].name # SENTINEL /\ reply.items[i].label # SENTINEL

\* C28: when the device list holds no device named or labelled with the
\* sentinel, or its request fails, the discovery cycle creates, restores,
\* registers and unregisters no accessory, constructs no handler, and leaves
\* the platform's device id null.
C28_FailedDiscoveryDoesNothing ==
  [][\A reply \in DeviceReplies :
       (FinishDiscoverDevices(reply) /\ NoSentinelListed(reply)) =>
         /\ hostCalls' = hostCalls
         /\ hostCalls' = <<>>
         /\ discoveredCacheUUIDs' = {}
         /\ deviceId' = NO_DEVICE]_vars

\* C28 witness: discovery has ended without a device while the host had
\* restored accessories, and a command called afterwards was refused for the
\* missing device id.
C28_Witness_DiscoveryEndedWithoutDevice ==
  /\ discovery = "done"
  /\ deviceId = NO_DEVICE
  /\ accessories # <<>>
  /\ hostCalls = <<>>
  /\ last.kind = "command"
  /\ last.status = "none"


\* The characteristics declared with minValue 18 and maxValue 30.
RangedKeys ==
  {"TargetTemperature", "CoolingThresholdTemperature", "HeatingThresholdTemperature"}

\* C29: every value a get handler returns for TargetTemperature,
\* CoolingThresholdTemperature or HeatingThresholdTemperature lies in the
\* declared range 18..30, whatever setpoint the remote reports.
C29_ReturnedTemperaturesInRange ==
  (last.kind = "get" /\ last.key \in RangedKeys) =>
    last.numValue \in MIN_TEMP..MAX_TEMP


\* C30: when getTargetTemperature is suspended at its status request while
\* setTargetTemperature completes successfully, then once the read has
\* returned too, acStates.TargetTemperature and the TargetTemperature cache
\* entry hold the written value, not a setpoint fetched before the write.
C30_OverlappingReadKeepsWrite ==
  [][\A c \in calls :
       (/\ FinishGet(c)
        /\ c.op = "TargetTemperature"
        /\ last.kind = "set" /\ last.op = "setTargetTemperature" /\ last.ok
        /\ calls' = {}) =>
         /\ acStates'.TargetTemperature = last.temp
         /\ characteristicCaches'["TargetTemperature"].has
         /\ characteristicCaches'["TargetTemperature"].value = last.temp]_vars


\* The step in which the call `c`, whose exchange succeeded, returns.
ReturnsAfterRefresh(c) ==
  /\ c.pc = "save"
  /\ callers' = callers \ {c}
  /\ lastSave'.has /\ lastSave'.by = c.id /\ lastSave'.op = c.op

\* C31: when the exchange of a getAccessToken or initialize call succeeded and
\* its write of tokens.json did not fail, then in the state the call returns
\* in, tokens.json holds the triple that exchange produced: a token pair the
\* endpoint issued after the call began, with the expiry computed from it.
C31_FilePersistedBeforeReturn ==
  [][\A c \in callers :
       (ReturnsAfterRefresh(c) /\ lastSave'.wrote) =>
         /\ tokenFile'.has
         /\ tokenFile'.accessToken = c.triple.accessToken
         /\ tokenFile'.refreshToken = c.triple.refreshToken
         /\ tokenFile'.expiresAt = c.triple.expiresAt
         /\ c.triple.accessToken > STORED_TOKEN
         /\ c.triple.accessToken # c.entry.accessToken
         /\ c.triple.refreshToken # c.sent
         /\ c.op = "getAccessToken" => tokenReturn'.id = c.id /\ tokenReturn'.has]_vars

\* C31 witness: a getAccessToken call has refreshed and returned, its write
\* went through, and tokens.json holds the token it returned in place of the
\* record an earlier run had left.
C31_Witness_RefreshedAndPersisted ==
  /\ lastSave.has /\ lastSave.wrote /\ lastSave.op = "getAccessToken"
  /\ tokenReturn.has /\ tokenReturn.refreshed /\ tokenReturn.id = lastSave.by
  /\ tokenFile.has
  /\ tokenFile.accessToken = tokenReturn.token
  /\ tokenFile.accessToken > STORED_TOKEN


\* C32: a characteristic read that did not fall back on a failed fetch never
\* returns a value the remote produced more than the 5 minutes of the status
\* snapshot's lifetime before the read, also when the per-characteristic
\* entry was filled from an aged snapshot.
C32_ReadNotOlderThanCoarseTTL ==
  (last.kind = "get" /\ last.src \in {"cached", "snapshot", "remote"}) =>
    last.at - capturedAt.entries[last.key] <= CACHE_DURATION


\* The last handler to return was setTargetHeatingCoolingState(m) with m heat,
\* cool or auto, and it succeeded.
ModeWriteSucceeded ==
  /\ last.kind = "set"
  /\ last.op = "setTargetHeatingCoolingState"
  /\ last.ok
  /\ last.mode \in 1..3

\* C33: after setTargetHeatingCoolingState(m) succeeded for m heat, cool or
\* auto, acStates.CurrentHeatingCoolingState and its cache entry equal m, with
\* auto shown as cool, whether or not Active was true before the call.
C33_ModeWriteSetsCurrentState ==
  ModeWriteSucceeded =>
    LET current == IF last.mode = 3 THEN 2 ELSE last.mode
    IN  /\ acStates.CurrentHeatingCoolingState = current
        /\ characteristicCaches["CurrentHeatingCoolingState"].has
        /\ characteristicCaches["CurrentHeatingCoolingState"].value = current


\* C34: as long as only set handlers have run and no status has been
\* requested from the remote, acStates.Active is true exactly when
\* acStates.TargetHeatingCoolingState is not 0 (off), and the cache entries of
\* the two characteristics agree in the same way.
C34_ActiveIffTargetNotOff ==
  (Quiescent /\ statusRequests = <<>>) =>
    /\ acStates.Active <=> acStates.TargetHeatingCoolingState # 0
    /\ (/\ characteristicCaches["Active"].has
        /\ characteristicCaches["TargetHeatingCoolingState"].has) =>
         (characteristicCaches["Active"].value
            <=> characteristicCaches["TargetHeatingCoolingState"].value # 0)


\* The last handler to return was setTargetHeatingCoolingState(auto) whose
\* mode command completed and whose setpoint command did not.
AutoSetpointFailed ==
  /\ last.kind = "set"
  /\ last.op = "setTargetHeatingCoolingState"
  /\ last.mode = 3
  /\ Len(last.results) = 2
  /\ last.results[1] /\ ~last.results[2]

\* C35: when the setpoint command of setTargetHeatingCoolingState(auto) did
\* not complete, the handler has not recorded auto mode, nor the derived
\* cooling threshold, nor the three temperature cache entries: they are as
\* they were when it was called.
C35_AutoRecordedOnlyIfBothCompleted ==
  AutoSetpointFailed =>
    /\ acStates.TargetHeatingCoolingState = last.pre.ac.TargetHeatingCoolingState
    /\ acStates.CoolingThresholdTemperature = last.pre.ac.CoolingThresholdTemperature
    /\ \A k \in TemperatureKeys : characteristicCaches[k] = last.pre.cc[k]


\* The refresh token obtained most recently when an exchange is sent: the one
\* of the last response of the endpoint; before any response, the one read
\* from tokens.json in this call or before; else the constructor's.
MostRecentRefreshToken ==
  IF issued > STORED_TOKEN THEN issued
  ELSE IF tm'.accessToken = STORED_TOKEN THEN tokenFile.refreshToken
  ELSE INITIAL_REFRESH_TOKEN

\* C36: every refresh exchange carries the refresh token obtained most
\* recently (from the last successful exchange, else from the stored record
\* that was read, else the initial one), and never a refresh token the
\* endpoint has already exchanged for a new pair.
C36_ExchangeSendsLatestRefreshToken ==
  [][ExchangeSent =>
       LET sent == exchanges'[Len(exchanges')].sent
       IN  /\ sent = MostRecentRefreshToken
           /\ sent \notin exchanged]_vars

\* C36 witness: a second exchange has been sent carrying the refresh token
\* the first one returned, after the first had used up the token it sent.
C36_Witness_SecondExchangeSendsIssuedToken ==
  /\ Len(exchanges) = 2
  /\ exchanges[1].sent \in exchanged
  /\ exchanges[2].sent > STORED_TOKEN
  /\ exchanges[2].sent # exchanges[1].sent


\* A step in which platform.getCurrentTemperature / getCurrentHumidity is
\* called for `type`.
SensorReadCalled(type) ==
  /\ nOps' = nOps + 1
  /\ \/ last'.kind = "sensor" /\ last'.key = type
     \/ \E c \in calls' \ calls : c.kind = "sensor" /\ c.op = type

\* C37: an entry with no value is never taken as fresh. A sensor entry of the
\* platform without a value has timestamp 0; a command that returns true
\* leaves the entries it invalidates with value null and timestamp 0; a sensor
\* read that finds its entry without a value sends a request to the remote;
\* the status snapshot of the accessory never holds null data; and a failed
\* status fetch leaves the snapshot and its timestamp as they were.
C37_NoValueNeverFresh ==
  [][/\ \A type \in Sensors :
          ~cache'[type].has => cache'[type] = NoSensorEntry
     /\ (CommandReturns /\ last'.ok) =>
          \A type \in InvalidatedBy(last'.cmds[1]) : cache'[type] = NoSensorEntry
     /\ \A type \in Sensors :
          (SensorReadCalled(type) /\ ~cache[type].has) =>
            /\ sensorRequests' = Append(sensorRequests, [type |-> type, at |-> now])
            /\ last' = NoCall
     /\ statusCache'.has => statusCache'.data # NoData
     /\ \A c \in calls :
          (FinishGet(c) /\ ~c.respOk) => statusCache' = statusCache]_vars

\* C37 witness: a sensor reading was requested, a command completed and ran
\* its invalidation, and the next read of that reading, at the same instant,
\* finds the entry without a value and is on its way to the remote.
C37_Witness_ReadAfterInvalidationGoesRemote ==
  /\ Len(sensorRequests) = 2
  /\ sensorRequests[1].type = sensorRequests[2].type
  /\ sensorRequests[2].at = sensorRequests[1].at
  /\ written # NoneWritten
  /\ \E c \in calls : c.kind = "sensor" /\ c.op = sensorRequests[2].type
  /\ cache[sensorRequests[2].type] = NoSensorEntry

====
